---- MODULE Spec2Model ----
(***************************************************************************)
(* Decision validation pipeline of ai_qt_stock: the indicator snapshot     *)
(* (indicator_snapshot.py), the hard decision firewall                     *)
(* (hard_decision_firewall.py) and the per-symbol trade state machine      *)
(* (trade_state_machine.py).                                               *)
(*                                                                         *)
(* Units.  Python floats are modelled by scaled integers:                  *)
(*   prices                      cents                                     *)
(*   percentages (P/L, spread,   tenths of a percent (3.0% is 30)          *)
(*     stop loss, take profit)                                             *)
(*   position_size_pct           whole percent                             *)
(*   volume_ratio, macd values   hundredths                                *)
(*   rsi                         tenths                                    *)
(*   times                       minutes since midnight, exchange-local    *)
(* An optional value (Python None or a value) is a sequence of length 0    *)
(* or 1.  A dict is a function whose DOMAIN is its set of keys.            *)
(***************************************************************************)
EXTENDS Integers, Sequences, FiniteSets, TLC

VARIABLES
    enable_extended_hours,  \* HardDecisionFirewall.enable_extended_hours
    fw_pc,                  \* position of the firewall's caller
    fw_snapshot,            \* the IndicatorSnapshot handed to check
    fw_proposal,            \* the LLMProposal handed to check
    fw_clock,               \* datetime.now() read by the first check
    fw_result,              \* FirewallResult of the first check
    fw_result2,             \* FirewallResult of a second check, same inputs
    sm_states,              \* TradeStateMachine.states
    sm_clock,               \* datetime.now() of the state machine's process
    sm_call,                \* the last transition call and the state it saw
    mg_risk_state,          \* AlpacaStrategyManager.risk_state
    mg_cycle,               \* the running or last execute_ai_strategy_v2 call
    mg_other,               \* an execute_ai_strategy_v2 call of a second thread
    ai_response,            \* the response text handed to _parse_proposal_v2
    br_positions,           \* the broker's positions, by upper-case symbol
    br_orders,              \* every buy_stock / sell_stock call and its outcome
    db_monitored,           \* monitored_positions rows with status 'holding'
    audit_log,              \* the lines of the audit log file
    log_calls,              \* number of entry ids generated so far
    loop_pc,                \* position of AlpacaAutoTrader._monitor_loop
    task_idx,               \* index of the task _execute_strategy_tasks is at
    iterations,             \* completed iterations of the monitor loop
    at_running,             \* AlpacaAutoTrader.running
    at_threads,             \* the _monitor_loop threads start() has created
    last_query              \* value returned by the last audit log query

vars == <<enable_extended_hours, fw_pc, fw_snapshot, fw_proposal, fw_clock,
          fw_result, fw_result2, sm_states, sm_clock, sm_call,
          mg_risk_state, mg_cycle, mg_other, ai_response, br_positions,
          br_orders, db_monitored, audit_log, log_calls, loop_pc, task_idx,
          iterations, at_running, at_threads, last_query>>

pl_vars == <<mg_risk_state, mg_cycle, mg_other, ai_response, br_positions,
             br_orders, db_monitored, audit_log, log_calls, loop_pc, task_idx,
             iterations, at_running, at_threads, last_query>>

fw_vars == <<enable_extended_hours, fw_pc, fw_snapshot, fw_proposal, fw_clock,
             fw_result, fw_result2>>

sm_vars == <<sm_states, sm_clock, sm_call>>

-----------------------------------------------------------------------------
(* Python values *)

None == <<>>

Some(v) == <<v>>

\* Python truthiness of an optional number: neither None nor 0
Truthy(x) == x # None /\ x[1] # 0

EmptyDict == [k \in {} |-> 0]

\* dict.get(k, default)
Get(d, k, default) == IF k \in DOMAIN d THEN d[k] ELSE default

\* d[k] = v
Put(d, k, v) == [x \in (DOMAIN d) \cup {k} |-> IF x = k THEN v ELSE d[x]]

Max(a, b) == IF a >= b THEN a ELSE b

Min(a, b) == IF a <= b THEN a ELSE b

\* str.upper() on the symbols of the model
Upper(s) == CASE s = "aapl" -> "AAPL"
              [] s = "msft" -> "MSFT"
              [] OTHER -> s

\* a human-readable entry of reject_reasons or modifications: the format
\* string and the values interpolated into it
Text(msg, a, b) == [msg |-> msg, a |-> a, b |-> b]

-----------------------------------------------------------------------------
(* HardDecisionFirewall.__init__: the default configuration *)

max_spread == 5

min_liquidity_score == 50

min_buy_rule_count == 3

max_position_size_pct == 40

max_position_size_pct_extended == 20

min_confidence_buy == 65

stop_loss_min == 30

stop_loss_max == 50

take_profit_min == 50

take_profit_max == 150

day_circuit_breaker_pct == -20

cooldown_minutes == 30

min_trade_interval_minutes == 5

hard_stop_loss_pct == -50

-----------------------------------------------------------------------------
(* IndicatorSnapshot.from_market_data *)

\* the trading session of an exchange-local time of day, in minutes
SessionOf(time_minutes) ==
    IF 570 <= time_minutes /\ time_minutes < 930 THEN "premarket"
    ELSE IF 930 <= time_minutes /\ time_minutes < 960 THEN "regular"
    ELSE IF 960 <= time_minutes /\ time_minutes < 1200 THEN "afterhours"
    ELSE "closed"

\* market_data.get(k): None when the key is absent
MdGet(md, k) == Get(md, k, None)

MacdCross(macd, macd_signal, macd_hist) ==
    IF macd # None /\ macd_signal # None /\ macd_hist # None
    THEN IF macd_hist[1] > 0 /\ macd[1] > macd_signal[1] THEN "golden"
         ELSE IF macd_hist[1] < 0 /\ macd[1] < macd_signal[1] THEN "death"
         ELSE "none"
    ELSE "none"

\* bb_position: Some("upper" | "middle" | "lower") or None;
\* price >= bb_upper * 0.98 is price * 100 >= bb_upper * 98
BbPosition(bb_upper, bb_middle, bb_lower, price) ==
    IF Truthy(bb_upper) /\ Truthy(bb_middle) /\ Truthy(bb_lower) /\ price # 0
    THEN IF price * 100 >= bb_upper[1] * 98 THEN Some("upper")
         ELSE IF price >= bb_middle[1] THEN Some("middle")
         ELSE Some("lower")
    ELSE None

\* the positions loop: the entry of the snapshot's symbol; a later entry of
\* the same symbol overwrites an earlier one
RECURSIVE PositionFacts(_, _, _, _)
PositionFacts(positions, symbol, price, acc) ==
    IF positions = <<>> THEN acc
    ELSE LET pos == Head(positions)
             pos_symbol == Upper(Get(pos, "symbol", ""))
             position_cost == Get(pos, "avg_entry_price", 0)
             current_price == Get(pos, "current_price", price)
             acc1 == [acc EXCEPT !.positions = Put(@, pos_symbol, pos)]
             acc2 == IF pos_symbol = Upper(symbol)
                     THEN [acc1 EXCEPT
                             !.has_position = TRUE,
                             !.position_cost = position_cost,
                             !.position_quantity = Get(pos, "quantity", 0),
                             !.position_pnl_pct =
                                 IF position_cost > 0
                                 THEN ((current_price - position_cost) * 1000)
                                          \div position_cost
                                 ELSE @]
                     ELSE acc1
         IN PositionFacts(Tail(positions), symbol, price, acc2)

NoPosition == [positions |-> EmptyDict, has_position |-> FALSE,
               position_cost |-> 0, position_quantity |-> 0,
               position_pnl_pct |-> 0]

\* the names appended to missing_fields, in the order of the code
MissingFields(has_valid_price, ma5, ma20, ma60, macd, rsi) ==
    (IF ~has_valid_price THEN <<"price">> ELSE <<>>)
    \o (IF ma5 = None THEN <<"ma5">> ELSE <<>>)
    \o (IF ma20 = None THEN <<"ma20">> ELSE <<>>)
    \o (IF ma60 = None THEN <<"ma60">> ELSE <<>>)
    \o (IF macd = None THEN <<"macd">> ELSE <<>>)
    \o (IF rsi = None THEN <<"rsi">> ELSE <<>>)

BoolToInt(b) == IF b THEN 1 ELSE 0

\* mutant: a price of 0 passes as valid
HasValidPriceNonNegative(price) == price >= 0

\* has_valid_price = (price > 0)
HasValidPrice(price) == price > 0

\* mutant: the resistance is the high itself
ResistanceIsHigh(high) == IF high # 0 THEN Some(high * 100) ELSE None

\* resistance = high * 1.02 if high else None, kept in units of 1/100 cent
Resistance(high) == IF high # 0 THEN Some(high * 102) ELSE None

\* breakout_ok: price >= resistance * 0.99 is
\* price * 10000 >= (high * 102) * 99
BreakoutOk(resistance, price) ==
    IF Truthy(resistance) /\ price # 0
    THEN price * 10000 >= resistance[1] * 99
    ELSE FALSE

from_market_data(symbol, market_data, positions, risk_state, now_et) ==
    LET session == SessionOf(now_et)
        price == Get(market_data, "current_price", 0)
        high == Get(market_data, "high", price)
        low == Get(market_data, "low", price)
        ma5 == MdGet(market_data, "ma5")
        ma20 == MdGet(market_data, "ma20")
        ma60 == MdGet(market_data, "ma60")
        macd == MdGet(market_data, "macd")
        macd_signal == MdGet(market_data, "macd_signal")
        macd_hist == MdGet(market_data, "macd_hist")
        macd_cross == MacdCross(macd, macd_signal, macd_hist)
        rsi == MdGet(market_data, "rsi")
        bb_upper == MdGet(market_data, "bb_upper")
        bb_middle == MdGet(market_data, "bb_middle")
        bb_lower == MdGet(market_data, "bb_lower")
        bb_position == BbPosition(bb_upper, bb_middle, bb_lower, price)
        volume_ratio == MdGet(market_data, "volume_ratio")
        resistance == Resistance(high)
        pf == PositionFacts(positions, symbol, price, NoPosition)
        trend_ok == IF Truthy(ma5) /\ Truthy(ma20) /\ Truthy(ma60) /\ price # 0
                    THEN price > ma5[1] /\ ma5[1] > ma20[1] /\ ma20[1] > ma60[1]
                    ELSE FALSE
        volume_ok == IF Truthy(volume_ratio) THEN volume_ratio[1] > 120
                     ELSE FALSE
        macd_ok == IF macd # None /\ macd_signal # None
                   THEN macd[1] > 0 /\ macd[1] > macd_signal[1]
                        /\ macd_cross = "golden"
                   ELSE FALSE
        rsi_ok == IF Truthy(rsi) THEN 500 <= rsi[1] /\ rsi[1] <= 700
                  ELSE FALSE
        breakout_ok == BreakoutOk(resistance, price)
        bb_ok == IF bb_position # None /\ Truthy(bb_middle) /\ price # 0
                 THEN bb_position[1] \in {"middle", "upper"}
                      /\ price >= bb_middle[1]
                 ELSE FALSE
        has_valid_price == HasValidPrice(price)
    IN [symbol |-> Upper(symbol),
        price |-> price, high |-> high, low |-> low,
        ma5 |-> ma5, ma20 |-> ma20, ma60 |-> ma60,
        macd |-> macd, macd_dea |-> macd_signal, macd_hist |-> macd_hist,
        macd_cross |-> macd_cross, rsi |-> rsi,
        bb_upper |-> bb_upper, bb_middle |-> bb_middle,
        bb_lower |-> bb_lower, bb_position |-> bb_position,
        volume_ratio |-> volume_ratio,
        spread |-> Get(market_data, "spread", Some(1)),
        liquidity_score |-> Get(market_data, "liquidity_score", Some(80)),
        session |-> session,
        resistance |-> resistance,
        positions |-> pf.positions,
        has_position |-> pf.has_position,
        position_cost |-> pf.position_cost,
        position_quantity |-> pf.position_quantity,
        position_pnl_pct |-> pf.position_pnl_pct,
        day_pnl_pct |-> Get(risk_state, "day_pnl_pct", 0),
        consecutive_losses |-> Get(risk_state, "consecutive_losses", 0),
        last_trade_time_by_symbol |->
            Get(risk_state, "last_trade_time_by_symbol", EmptyDict),
        trend_ok |-> trend_ok, volume_ok |-> volume_ok, macd_ok |-> macd_ok,
        rsi_ok |-> rsi_ok, breakout_ok |-> breakout_ok, bb_ok |-> bb_ok,
        buy_rule_count |-> BoolToInt(trend_ok) + BoolToInt(volume_ok)
                           + BoolToInt(macd_ok) + BoolToInt(rsi_ok)
                           + BoolToInt(breakout_ok) + BoolToInt(bb_ok),
        has_valid_price |-> has_valid_price,
        has_valid_indicators |-> has_valid_price,
        missing_fields |->
            MissingFields(has_valid_price, ma5, ma20, ma60, macd, rsi)]

-----------------------------------------------------------------------------
(* HardDecisionFirewall.check *)

FirewallResult(allowed, final_action, final_params, reject_reasons, reason_codes, normalized_confidence, modifications) ==
    [allowed |-> allowed, final_action |-> final_action,
     final_params |-> final_params, reject_reasons |-> reject_reasons,
     reason_codes |-> reason_codes,
     normalized_confidence |-> normalized_confidence,
     modifications |-> modifications]

\* the locals of check before its first test
CheckLocals(proposal) ==
    [reject_reasons |-> <<>>, reason_codes |-> <<>>, modifications |-> <<>>,
     final_action |-> proposal.proposed_action,
     final_params |-> proposal.params,
     normalized_confidence |-> proposal.confidence]

Reject(st, text, code) ==
    [st EXCEPT !.reject_reasons = Append(@, text),
               !.reason_codes = Append(@, code)]

\* 1. the return taken on an invalid price; modifications keeps its default
InvalidPriceResult ==
    FirewallResult(FALSE, "HOLD", EmptyDict,
                   <<Text("Invalid price data", 0, 0)>>, <<"MISSING_DATA">>,
                   0, None)

\* 1. missing indicator fields
CheckMissingFields(st, proposal, snapshot) ==
    IF snapshot.missing_fields # <<>> /\ proposal.proposed_action = "BUY"
    THEN [Reject(st, Text("Critical indicators missing",
                          Len(snapshot.missing_fields), 0), "MISSING_DATA")
            EXCEPT !.final_action = "HOLD",
                   !.normalized_confidence = Max(0, @ - 20)]
    ELSE st

\* mutant: the hard stop fires only strictly below the threshold
HardStopTriggeredStrict(snapshot) ==
    snapshot.has_position /\ snapshot.position_pnl_pct < hard_stop_loss_pct

\* 2. the condition of the hard stop loss
HardStopTriggered(snapshot) ==
    snapshot.has_position /\ snapshot.position_pnl_pct <= hard_stop_loss_pct

\* mutant: the forced sell is capped at the position ceiling of a buy
HardStopResultCapped(snapshot) ==
    FirewallResult(TRUE, "SELL",
                   [position_size_pct |-> max_position_size_pct,
                    stop_loss_pct |-> hard_stop_loss_pct,
                    take_profit_pct |-> 0],
                   <<>>, <<"HARD_STOP_LOSS">>, 100,
                   Some(<<Text("Hard stop loss triggered, forced sell",
                               snapshot.position_pnl_pct,
                               hard_stop_loss_pct)>>))

\* 2. the return taken when the hard stop loss fires
HardStopResult(snapshot) ==
    FirewallResult(TRUE, "SELL",
                   [position_size_pct |-> 100,
                    stop_loss_pct |-> hard_stop_loss_pct,
                    take_profit_pct |-> 0],
                   <<>>, <<"HARD_STOP_LOSS">>, 100,
                   Some(<<Text("Hard stop loss triggered, forced sell",
                               snapshot.position_pnl_pct,
                               hard_stop_loss_pct)>>))

\* 3. trading session
CheckSession(st, proposal, snapshot) ==
    IF snapshot.session = "closed"
    THEN [Reject(st, Text("Market is closed", 0, 0), "INVALID_SESSION")
            EXCEPT !.final_action = "HOLD"]
    ELSE IF snapshot.session # "regular"
    THEN IF ~enable_extended_hours
         THEN [Reject(st, Text("Non-regular trading session", 0, 0),
                      "INVALID_SESSION")
                 EXCEPT !.final_action = "HOLD"]
         ELSE IF proposal.proposed_action = "BUY"
         THEN LET st1 ==
                    IF Get(st.final_params, "position_size_pct", 0)
                           > max_position_size_pct_extended
                    THEN [st EXCEPT
                            !.final_params =
                                Put(@, "position_size_pct",
                                    max_position_size_pct_extended),
                            !.modifications =
                                Append(@, Text("Extended hours trading, position limit reduced",
                                               max_position_size_pct_extended, 0))]
                    ELSE st
                  st2 ==
                    IF proposal.risk_level # "high"
                    THEN [st1 EXCEPT
                            !.modifications =
                                Append(@, Text("Extended hours trading, risk level raised to high",
                                               0, 0))]
                    ELSE st1
              IN [st2 EXCEPT !.normalized_confidence = Max(0, @ - 10)]
         ELSE st
    ELSE st

\* 4. liquidity: spread
CheckSpread(st, proposal, snapshot) ==
    IF snapshot.spread # None /\ snapshot.spread[1] > max_spread
    THEN LET st1 == Reject(st, Text("Spread too large", snapshot.spread[1],
                                    max_spread), "HIGH_SPREAD")
         IN IF proposal.proposed_action = "BUY"
            THEN [st1 EXCEPT !.final_action = "HOLD"]
            ELSE st1
    ELSE st

\* 4. liquidity: liquidity score
CheckLiquidity(st, proposal, snapshot) ==
    IF snapshot.liquidity_score # None
       /\ snapshot.liquidity_score[1] < min_liquidity_score
    THEN LET st1 == Reject(st, Text("Insufficient liquidity",
                                    snapshot.liquidity_score[1],
                                    min_liquidity_score), "LOW_LIQUIDITY")
         IN IF proposal.proposed_action = "BUY"
            THEN [st1 EXCEPT !.final_action = "HOLD"]
            ELSE st1
    ELSE st

_has_signal_conflict(snapshot, proposal) ==
    IF snapshot.trend_ok /\ ~snapshot.macd_ok /\ ~snapshot.volume_ok
    THEN TRUE
    ELSE LET evidence == proposal.evidence
         IN Get(evidence, "trend_ok", FALSE)
            /\ ~Get(evidence, "macd_ok", FALSE)
            /\ ~Get(evidence, "volume_ok", FALSE)

\* mutant: too few buy rules cost confidence but deny nothing
CheckBuyRuleCountPenaltyOnly(st, proposal, snapshot) ==
    IF snapshot.buy_rule_count < min_buy_rule_count
    THEN [st EXCEPT !.normalized_confidence = Max(0, @ - 30)]
    ELSE st

\* 5. buy signals: rule count
CheckBuyRuleCount(st, proposal, snapshot) ==
    IF snapshot.buy_rule_count < min_buy_rule_count
    THEN [Reject(st, Text("Insufficient buy signals",
                          snapshot.buy_rule_count, min_buy_rule_count),
                 "INSUFFICIENT_BUY_SIGNALS")
            EXCEPT !.final_action = "HOLD",
                   !.normalized_confidence = Max(0, @ - 30)]
    ELSE st

\* mutant: the confidence test is skipped once an earlier check forced HOLD
CheckConfidenceUnlessHeld(st, proposal) ==
    IF st.final_action # "HOLD" /\ proposal.confidence < min_confidence_buy
    THEN [Reject(st, Text("Insufficient confidence", proposal.confidence,
                          min_confidence_buy), "LOW_CONFIDENCE")
            EXCEPT !.final_action = "HOLD"]
    ELSE st

\* 5. buy signals: confidence
CheckConfidence(st, proposal) ==
    IF proposal.confidence < min_confidence_buy
    THEN [Reject(st, Text("Insufficient confidence", proposal.confidence,
                          min_confidence_buy), "LOW_CONFIDENCE")
            EXCEPT !.final_action = "HOLD"]
    ELSE st

\* 5. buy signals: signal conflict
CheckSignalConflict(st, proposal, snapshot) ==
    IF _has_signal_conflict(snapshot, proposal)
    THEN [Reject(st, Text("Signal conflict", 0, 0), "SIGNAL_CONFLICT")
            EXCEPT !.final_action = "HOLD",
                   !.normalized_confidence = Max(0, @ - 20)]
    ELSE st

\* mutant: fewer than two counter-evidence items deny the proposal
CheckCounterEvidenceRejecting(st, proposal) ==
    IF Len(proposal.counter_evidence) < 2
    THEN [Reject(st, Text("LLM did not provide sufficient counter-evidence",
                          0, 0), "LOW_CONFIDENCE")
            EXCEPT !.final_action = "HOLD",
                   !.normalized_confidence = Max(0, @ - 10)]
    ELSE st

\* 5. buy signals: counter evidence
CheckCounterEvidence(st, proposal) ==
    IF Len(proposal.counter_evidence) < 2
    THEN [st EXCEPT
            !.modifications =
                Append(@, Text("LLM did not provide sufficient counter-evidence, reducing confidence",
                               0, 0)),
            !.normalized_confidence = Max(0, @ - 10)]
    ELSE st

\* 5. buy signal check
CheckBuySignals(st, proposal, snapshot) ==
    IF proposal.proposed_action = "BUY"
    THEN CheckCounterEvidence(
             CheckSignalConflict(
                 CheckConfidence(
                     CheckBuyRuleCount(st, proposal, snapshot),
                     proposal),
                 proposal, snapshot),
             proposal)
    ELSE st

\* 6. position limit
CheckPositionLimit(st, proposal, snapshot) ==
    IF proposal.proposed_action = "BUY"
    THEN LET max_size == IF snapshot.session # "regular"
                         THEN max_position_size_pct_extended
                         ELSE max_position_size_pct
         IN IF Get(st.final_params, "position_size_pct", 0) > max_size
            THEN [st EXCEPT
                    !.final_params = Put(@, "position_size_pct", max_size),
                    !.modifications =
                        Append(@, Text("Position limit clamped", max_size, 0)),
                    !.reason_codes = Append(@, "PARAMS_CLAMPED")]
            ELSE st
    ELSE st

\* mutant: min and max exchanged
ClampSwapped(lo, hi, x) == Min(lo, Max(hi, x))

\* max(lo, min(hi, x))
Clamp(lo, hi, x) == Max(lo, Min(hi, x))

\* mutant: only a stop loss below the band is corrected
ClampStopLossLowerOnly(st) ==
    LET stop_loss_pct == Get(st.final_params, "stop_loss_pct", 50)
    IN IF stop_loss_pct < stop_loss_min
       THEN [st EXCEPT
               !.final_params = Put(@, "stop_loss_pct", stop_loss_min),
               !.modifications =
                   Append(@, Text("Stop loss clamped", stop_loss_pct,
                                  stop_loss_min)),
               !.reason_codes = Append(@, "PARAMS_CLAMPED")]
       ELSE st

\* 7. stop loss range; 5.0 is the default of an absent stop_loss_pct
ClampStopLoss(st) ==
    LET stop_loss_pct == Get(st.final_params, "stop_loss_pct", 50)
    IN IF stop_loss_pct < stop_loss_min \/ stop_loss_pct > stop_loss_max
       THEN LET clamped == Clamp(stop_loss_min, stop_loss_max, stop_loss_pct)
            IN [st EXCEPT
                  !.final_params = Put(@, "stop_loss_pct", clamped),
                  !.modifications =
                      Append(@, Text("Stop loss clamped", stop_loss_pct,
                                     clamped)),
                  !.reason_codes = Append(@, "PARAMS_CLAMPED")]
       ELSE st

\* 7. take profit range; 10.0 is the default of an absent take_profit_pct
ClampTakeProfit(st) ==
    LET take_profit_pct == Get(st.final_params, "take_profit_pct", 100)
    IN IF take_profit_pct < take_profit_min
          \/ take_profit_pct > take_profit_max
       THEN LET clamped == Clamp(take_profit_min, take_profit_max,
                                 take_profit_pct)
            IN [st EXCEPT
                  !.final_params = Put(@, "take_profit_pct", clamped),
                  !.modifications =
                      Append(@, Text("Take profit clamped", take_profit_pct,
                                     clamped)),
                  !.reason_codes = Append(@, "PARAMS_CLAMPED")]
       ELSE st

\* mutant: the circuit breaker forces HOLD without recording a reason
CheckCircuitBreakerSilent(st, proposal, snapshot) ==
    IF proposal.proposed_action = "BUY"
       /\ snapshot.day_pnl_pct <= day_circuit_breaker_pct
    THEN [st EXCEPT !.final_action = "HOLD"]
    ELSE st

\* 8. daily circuit breaker
CheckCircuitBreaker(st, proposal, snapshot) ==
    IF proposal.proposed_action = "BUY"
       /\ snapshot.day_pnl_pct <= day_circuit_breaker_pct
    THEN [Reject(st, Text("Daily circuit breaker triggered",
                          snapshot.day_pnl_pct, day_circuit_breaker_pct),
                 "DAY_CIRCUIT_BREAKER")
            EXCEPT !.final_action = "HOLD"]
    ELSE st

\* timedelta.seconds // 60: the seconds field of a timedelta lies in
\* 0 .. 86399, the days are dropped
SecondsFieldMinutes(delta_minutes) == delta_minutes % 1440

\* mutant: the last trade of any symbol counts for the snapshot's symbol
LastTradeTimeAnySymbol(snapshot) ==
    LET m == snapshot.last_trade_time_by_symbol
    IN IF DOMAIN m # {}
       THEN Some(m[CHOOSE k \in DOMAIN m : \A j \in DOMAIN m : m[j] <= m[k]])
       ELSE None

\* 9. the last trade time of the snapshot's symbol, or None
LastTradeTime(snapshot) ==
    IF DOMAIN snapshot.last_trade_time_by_symbol # {}
       /\ snapshot.symbol \in DOMAIN snapshot.last_trade_time_by_symbol
    THEN Some(snapshot.last_trade_time_by_symbol[snapshot.symbol])
    ELSE None

\* mutant: the cooldown still holds at exactly cooldown_minutes
CheckCooldownWindowInclusive(st, proposal, time_since_last_trade) ==
    IF proposal.proposed_action = "BUY"
       /\ time_since_last_trade <= cooldown_minutes
    THEN [Reject(st, Text("Cooldown period not ended",
                          SecondsFieldMinutes(time_since_last_trade),
                          cooldown_minutes), "COOLDOWN_ACTIVE")
            EXCEPT !.final_action = "HOLD"]
    ELSE st

\* 9. cooldown after the last trade
CheckCooldownWindow(st, proposal, time_since_last_trade) ==
    IF proposal.proposed_action = "BUY"
       /\ time_since_last_trade < cooldown_minutes
    THEN [Reject(st, Text("Cooldown period not ended",
                          SecondsFieldMinutes(time_since_last_trade),
                          cooldown_minutes), "COOLDOWN_ACTIVE")
            EXCEPT !.final_action = "HOLD"]
    ELSE st

\* 9. minimum trade interval
CheckMinTradeInterval(st, proposal, time_since_last_trade) ==
    IF time_since_last_trade < min_trade_interval_minutes
    THEN LET st1 == Reject(st, Text("Insufficient trade interval",
                                    SecondsFieldMinutes(time_since_last_trade),
                                    min_trade_interval_minutes),
                           "MIN_TRADE_INTERVAL")
         IN IF proposal.proposed_action # "SELL"
            THEN [st1 EXCEPT !.final_action = "HOLD"]
            ELSE st1
    ELSE st

\* 9. cooldown check; now is datetime.now()
CheckCooldown(st, proposal, snapshot, now) ==
    LET last_trade_time == LastTradeTime(snapshot)
    IN IF last_trade_time # None
       THEN LET time_since_last_trade == now - last_trade_time[1]
            IN CheckMinTradeInterval(
                   CheckCooldownWindow(st, proposal, time_since_last_trade),
                   proposal, time_since_last_trade)
       ELSE st

\* 10. final decision
FinalDecision(st) ==
    LET allowed == st.final_action \in {"BUY", "SELL"}
                   /\ Len(st.reject_reasons) = 0
    IN FirewallResult(allowed,
                      IF allowed THEN st.final_action ELSE "HOLD",
                      st.final_params, st.reject_reasons, st.reason_codes,
                      st.normalized_confidence, Some(st.modifications))

\* check(proposal, snapshot, risk_state) evaluated when the clock reads now;
\* risk_state is not read by the code
check(proposal, snapshot, now) ==
    IF ~snapshot.has_valid_price THEN InvalidPriceResult
    ELSE LET st1 == CheckMissingFields(CheckLocals(proposal), proposal,
                                       snapshot)
         IN IF HardStopTriggered(snapshot) THEN HardStopResult(snapshot)
            ELSE LET st3 == CheckSession(st1, proposal, snapshot)
                     st4 == CheckLiquidity(
                                CheckSpread(st3, proposal, snapshot),
                                proposal, snapshot)
                     st5 == CheckBuySignals(st4, proposal, snapshot)
                     st6 == CheckPositionLimit(st5, proposal, snapshot)
                     st7 == ClampTakeProfit(ClampStopLoss(st6))
                     st8 == CheckCircuitBreaker(st7, proposal, snapshot)
                     st9 == CheckCooldown(st8, proposal, snapshot, now)
                 IN FinalDecision(st9)

-----------------------------------------------------------------------------
(* The inputs of the firewall: market data, positions, risk state, clock    *)
(* readings and proposals.                                                  *)

\* llm_role_example.py, scenario 1: price 175.50 above MA5 > MA20 > MA60,
\* MACD golden cross, RSI 62.5, volume ratio 1.35: 5 of the 6 buy rules
MdStrong ==
    [current_price |-> 17550, high |-> 17600, low |-> 17400,
     ma5 |-> Some(17450), ma20 |-> Some(17200), ma60 |-> Some(16800),
     macd |-> Some(150), macd_signal |-> Some(100), macd_hist |-> Some(50),
     rsi |-> Some(625),
     bb_upper |-> Some(18000), bb_middle |-> Some(17300),
     bb_lower |-> Some(16600),
     volume_ratio |-> Some(135)]

\* scenario 2: 2 of the 6 buy rules (RSI and the Bollinger position)
MdWeak ==
    [MdStrong EXCEPT !.ma5 = Some(17600), !.macd = Some(-50),
                     !.macd_hist = Some(-150), !.volume_ratio = Some(100)]

\* an uptrend that neither MACD nor volume supports
MdConflict ==
    [MdStrong EXCEPT !.macd = Some(-50), !.macd_hist = Some(-150),
                     !.volume_ratio = Some(100)]

\* indicators that upstream could not compute; spread and liquidity score
\* supplied as None
MdMissing ==
    [current_price |-> 17550, high |-> 17600, low |-> 17400,
     ma5 |-> Some(17450), ma20 |-> Some(17200),
     bb_upper |-> Some(18000), bb_middle |-> Some(17300),
     bb_lower |-> Some(16600),
     volume_ratio |-> Some(135),
     spread |-> None, liquidity_score |-> None]

\* no price
MdNoPrice == [MdStrong EXCEPT !.current_price = 0]

\* a spread of 0.6%
MdWideSpread ==
    [k \in DOMAIN MdStrong \cup {"spread"} |->
        IF k = "spread" THEN Some(6) ELSE MdStrong[k]]

\* a liquidity score of 40
MdIlliquid ==
    [k \in DOMAIN MdStrong \cup {"liquidity_score"} |->
        IF k = "liquidity_score" THEN Some(40) ELSE MdStrong[k]]

MarketDataSet ==
    {MdStrong, MdWeak, MdConflict, MdMissing, MdNoPrice, MdWideSpread,
     MdIlliquid}

Position(symbol, avg_entry_price, quantity, current_price) ==
    [symbol |-> symbol, avg_entry_price |-> avg_entry_price,
     quantity |-> quantity, current_price |-> current_price]

\* no position; a position at 0%; a position at -5.0%, the hard stop
PositionsSet ==
    {<<>>,
     <<Position("AAPL", 10000, 10, 10000)>>,
     <<Position("AAPL", 10000, 10, 9500)>>}

\* last_trade_time_by_symbol: empty, a trade of the snapshot's symbol at
\* 15:26, a trade of another symbol only
LastTradeMaps ==
    {EmptyDict, [s \in {"AAPL"} |-> 926], [s \in {"MSFT"} |-> 926]}

RiskStates ==
    {[day_pnl_pct |-> d, consecutive_losses |-> 0,
      last_trade_time_by_symbol |-> m] :
        d \in {0, day_circuit_breaker_pct}, m \in LastTradeMaps}

\* clock readings: 4, 29 and 30 minutes after that trade in the regular
\* session, one in the after-hours session, one with the market closed
ClockReadings == {930, 955, 956, 960, 1200}

Params(position_size_pct, stop_loss_pct, take_profit_pct) ==
    [position_size_pct |-> position_size_pct,
     stop_loss_pct |-> stop_loss_pct, take_profit_pct |-> take_profit_pct]

\* no parameter given; scenario 1 (all inside their limits); scenario 4
\* (stop loss below, take profit above its band); an oversized position
\* with the stop loss above and the take profit below its band
ParamsSet ==
    {EmptyDict, Params(25, 40, 120), Params(25, 20, 200), Params(50, 60, 30)}

EvidenceSet ==
    {[trend_ok |-> TRUE, macd_ok |-> TRUE, volume_ok |-> TRUE],
     [trend_ok |-> TRUE, macd_ok |-> FALSE, volume_ok |-> FALSE]}

\* scenario 2 (below min_confidence_buy) and scenario 1
Confidences == {60, 78}

Proposals ==
    {[symbol |-> "AAPL", proposed_action |-> a, confidence |-> c,
      evidence |-> e, params |-> p, risk_level |-> r,
      counter_evidence |-> ce] :
        a \in {"BUY", "SELL", "HOLD"}, c \in Confidences, e \in EvidenceSet,
        p \in ParamsSet, r \in {"medium", "high"},
        ce \in {<<>>, <<"risk 1", "risk 2">>}}

-----------------------------------------------------------------------------
(* The firewall and its caller *)

\* the manager, the broker, the audit log and the monitor loop before use
PlIdle ==
    /\ mg_risk_state = [day_pnl_pct |-> 0, consecutive_losses |-> 0,
                        last_trade_time_by_symbol |-> EmptyDict]
    /\ mg_cycle = None
    /\ mg_other = None
    /\ ai_response = None
    /\ br_positions = EmptyDict
    /\ br_orders = <<>>
    /\ db_monitored = EmptyDict
    /\ audit_log = <<>>
    /\ log_calls = 0
    /\ loop_pc = "stopped"
    /\ task_idx = 0
    /\ iterations = 0
    /\ at_running = FALSE
    /\ at_threads = <<>>
    /\ last_query = None

SmIdle ==
    /\ sm_states = EmptyDict
    /\ sm_clock = 0
    /\ sm_call = None

FwInit ==
    /\ enable_extended_hours \in BOOLEAN
    /\ fw_pc = "idle"
    /\ fw_snapshot = None
    /\ fw_proposal = None
    /\ fw_clock = 0
    /\ fw_result = None
    /\ fw_result2 = None
    /\ SmIdle
    /\ PlIdle

\* the caller builds the snapshot of a symbol
BuildSnapshot ==
    /\ fw_pc = "idle"
    /\ \E md \in MarketDataSet, positions \in PositionsSet,
          risk_state \in RiskStates, now \in ClockReadings :
          /\ fw_snapshot' = Some(from_market_data("AAPL", md, positions,
                                                  risk_state, now))
          /\ fw_clock' = now
    /\ fw_pc' = "snapshot"
    /\ UNCHANGED <<enable_extended_hours, fw_proposal, fw_result, fw_result2>>
    /\ UNCHANGED sm_vars
    /\ UNCHANGED pl_vars

\* the caller hands a proposal and the snapshot to check
Check ==
    /\ fw_pc = "snapshot"
    /\ \E proposal \in Proposals :
          /\ fw_proposal' = Some(proposal)
          /\ fw_result' = Some(check(proposal, fw_snapshot[1], fw_clock))
    /\ fw_pc' = "checked"
    /\ UNCHANGED <<enable_extended_hours, fw_snapshot, fw_clock, fw_result2>>
    /\ UNCHANGED sm_vars
    /\ UNCHANGED pl_vars

\* the caller hands the same proposal and snapshot to check once more, at
\* the same or a later clock reading
CheckAgain ==
    /\ fw_pc = "checked"
    /\ \E now \in ClockReadings :
          /\ now >= fw_clock
          /\ fw_result2' = Some(check(fw_proposal[1], fw_snapshot[1], now))
    /\ fw_pc' = "rechecked"
    /\ UNCHANGED <<enable_extended_hours, fw_snapshot, fw_proposal, fw_clock,
                   fw_result>>
    /\ UNCHANGED sm_vars
    /\ UNCHANGED pl_vars

FwNext == BuildSnapshot \/ Check \/ CheckAgain

FwSpec == FwInit /\ [][FwNext]_vars

-----------------------------------------------------------------------------
(* The session of every time of day *)

\* now_et.hour and now_et.minute at the moment from_market_data runs
SessInit ==
    /\ enable_extended_hours = FALSE
    /\ fw_pc = "idle"
    /\ fw_snapshot = None
    /\ fw_proposal = None
    /\ \E hour_et \in 0 .. 23, minute_et \in 0 .. 59 :
          fw_clock = hour_et * 60 + minute_et
    /\ fw_result = None
    /\ fw_result2 = None
    /\ SmIdle
    /\ PlIdle

\* the caller builds a snapshot at that time of day
SnapshotAtTime ==
    /\ fw_pc = "idle"
    /\ \E md \in {MdStrong, MdNoPrice} :
          fw_snapshot' = Some(from_market_data("AAPL", md, <<>>, EmptyDict,
                                               fw_clock))
    /\ fw_pc' = "snapshot"
    /\ UNCHANGED <<enable_extended_hours, fw_proposal, fw_clock, fw_result,
                   fw_result2>>
    /\ UNCHANGED sm_vars
    /\ UNCHANGED pl_vars

SessNext == SnapshotAtTime

SessSpec == SessInit /\ [][SessNext]_vars

-----------------------------------------------------------------------------
(* TradeStateMachine *)

Symbols == {"AAPL", "MSFT"}

\* the clock of the state machine advances in steps of TickMinutes up to
\* MaxClock; MaxHolds caps consecutive_holds, which the code never resets
\* outside CANDIDATE
TickMinutes == 15

MaxClock == 45

MaxHolds == 2

\* SymbolState(symbol=symbol, state=TradeState.WAIT)
NewSymbolState ==
    [state |-> "WAIT", entered_at |-> None, exited_at |-> None,
     last_action |-> None, last_action_time |-> None,
     consecutive_holds |-> 0]

get_state(states, symbol) ==
    IF symbol \notin DOMAIN states THEN "WAIT" ELSE states[symbol].state

can_open_position(states, symbol) ==
    get_state(states, symbol) \in {"WAIT", "CANDIDATE"}

can_close_position(states, symbol) ==
    get_state(states, symbol) \in {"ENTERED", "MANAGING"}

\* mutant: the cooldown is over only after more than cooldown_minutes
CooldownOverStrictly(state_obj, now) ==
    state_obj.exited_at # None
    /\ now - state_obj.exited_at[1] > cooldown_minutes

\* the cooldown test of the COOLDOWN branches
CooldownOver(state_obj, now) ==
    state_obj.exited_at # None
    /\ now - state_obj.exited_at[1] >= cooldown_minutes

\* mutant: a BUY with a held position enters again from ENTERED or MANAGING
TransitionBuyReentering(state_obj, has_position, now) ==
    IF state_obj.state \in {"WAIT", "CANDIDATE"}
    THEN IF has_position
         THEN [state_obj EXCEPT !.state = "ENTERED", !.entered_at = Some(now)]
         ELSE [state_obj EXCEPT !.state = "CANDIDATE"]
    ELSE IF state_obj.state = "COOLDOWN" /\ CooldownOver(state_obj, now)
    THEN [state_obj EXCEPT !.state = "CANDIDATE"]
    ELSE IF has_position
    THEN [state_obj EXCEPT !.state = "ENTERED", !.entered_at = Some(now)]
    ELSE state_obj

\* action == "BUY"
TransitionBuy(state_obj, has_position, now) ==
    IF state_obj.state \in {"WAIT", "CANDIDATE"}
    THEN IF has_position
         THEN [state_obj EXCEPT !.state = "ENTERED", !.entered_at = Some(now)]
         ELSE [state_obj EXCEPT !.state = "CANDIDATE"]
    ELSE IF state_obj.state = "COOLDOWN" /\ CooldownOver(state_obj, now)
    THEN [state_obj EXCEPT !.state = "CANDIDATE"]
    ELSE state_obj

\* mutant: a SELL is honoured in ENTERED only
TransitionSellEnteredOnly(state_obj, now) ==
    IF state_obj.state = "ENTERED"
    THEN [state_obj EXCEPT !.state = "COOLDOWN", !.exited_at = Some(now)]
    ELSE state_obj

\* action == "SELL": through EXITED into COOLDOWN
TransitionSell(state_obj, now) ==
    IF state_obj.state \in {"ENTERED", "MANAGING"}
    THEN [state_obj EXCEPT !.state = "COOLDOWN", !.exited_at = Some(now)]
    ELSE state_obj

\* action == "HOLD"
TransitionHold(state_obj, now) ==
    IF state_obj.state = "ENTERED"
    THEN [state_obj EXCEPT !.state = "MANAGING"]
    ELSE IF state_obj.state = "CANDIDATE"
    THEN IF state_obj.consecutive_holds + 1 >= 3
         THEN [state_obj EXCEPT !.state = "WAIT", !.consecutive_holds = 0]
         ELSE [state_obj EXCEPT !.consecutive_holds = @ + 1]
    ELSE IF state_obj.state = "COOLDOWN"
    THEN IF CooldownOver(state_obj, now)
         THEN [state_obj EXCEPT !.state = "WAIT"]
         ELSE state_obj
    ELSE [state_obj EXCEPT !.consecutive_holds = @ + 1]

\* transition(symbol, action, has_position) at clock reading now: the new
\* states map
transition(states, symbol, action, has_position, now) ==
    LET state_obj == IF symbol \notin DOMAIN states THEN NewSymbolState
                     ELSE states[symbol]
        moved == CASE action = "BUY" ->
                          TransitionBuy(state_obj, has_position, now)
                   [] action = "SELL" -> TransitionSell(state_obj, now)
                   [] action = "HOLD" -> TransitionHold(state_obj, now)
                   [] OTHER -> state_obj
    IN Put(states, symbol,
           [moved EXCEPT !.last_action = Some(action),
                         !.last_action_time = Some(now)])

FwIdle ==
    /\ enable_extended_hours = FALSE
    /\ fw_pc = "idle"
    /\ fw_snapshot = None
    /\ fw_proposal = None
    /\ fw_clock = 0
    /\ fw_result = None
    /\ fw_result2 = None

SmInit ==
    /\ sm_states = EmptyDict
    /\ sm_clock = 0
    /\ sm_call = None
    /\ FwIdle
    /\ PlIdle

\* a caller invokes transition; sm_call records the call, the state it
\* found and the value it returned
Transition ==
    /\ \E symbol \in Symbols, action \in {"BUY", "SELL", "HOLD"},
          has_position \in BOOLEAN :
          /\ get_state(sm_states, symbol) \in {"WAIT", "MANAGING"}
                 /\ action = "HOLD"
             => Get(sm_states, symbol, NewSymbolState).consecutive_holds
                    < MaxHolds
          /\ sm_states' = transition(sm_states, symbol, action, has_position,
                                     sm_clock)
          /\ sm_call' = Some([symbol |-> symbol, action |-> action,
                              has_position |-> has_position,
                              from |-> get_state(sm_states, symbol),
                              returned |-> sm_states'[symbol].state])
    /\ UNCHANGED sm_clock
    /\ UNCHANGED fw_vars
    /\ UNCHANGED pl_vars

\* time passes
Tick ==
    /\ sm_clock + TickMinutes <= MaxClock
    /\ sm_clock' = sm_clock + TickMinutes
    /\ UNCHANGED <<sm_states, sm_call>>
    /\ UNCHANGED fw_vars
    /\ UNCHANGED pl_vars

SmNext == Transition \/ Tick

SmSpec == SmInit /\ [][SmNext]_vars

-----------------------------------------------------------------------------
(* AuditLogger *)

\* entry_id: the symbol and datetime.now() to the microsecond; n orders the
\* readings of the clock inside one minute
EntryId(symbol, now, n) == [symbol |-> symbol, time |-> now, seq |-> n]

\* the log_entry dict of log_decision
DecisionEntry(entry_id, symbol, parsed_proposal, firewall_result, order_request, order_fill) ==
    [timestamp |-> [time |-> entry_id.time, seq |-> entry_id.seq],
     entry_id |-> entry_id,
     symbol |-> symbol,
     parsed_proposal |->
         [proposed_action |-> parsed_proposal.proposed_action,
          confidence |-> parsed_proposal.confidence],
     firewall_result |->
         [allowed |-> firewall_result.allowed,
          final_action |-> firewall_result.final_action,
          reason_codes |-> firewall_result.reason_codes,
          normalized_confidence |-> firewall_result.normalized_confidence],
     order_request |-> order_request,
     order_fill |-> order_fill]

\* the log_entry dict of log_rejection
RejectionEntry(entry_id, symbol, reason_code) ==
    [timestamp |-> [time |-> entry_id.time, seq |-> entry_id.seq],
     entry_id |-> entry_id,
     symbol |-> symbol,
     action |-> "REJECTED",
     reason_code |-> reason_code]

\* mutant: the file is opened for writing, not for appending
WriteEntryTruncating(log, log_entry, write_ok) ==
    IF write_ok THEN <<log_entry>> ELSE log

\* open(self.log_file, 'a') and write one line; a failed write is logged and
\* swallowed
WriteEntry(log, log_entry, write_ok) ==
    IF write_ok THEN Append(log, log_entry) ELSE log

\* stored lines that are not entries: a line that is not valid JSON (other
\* text, or an entry cut short), and a line holding a JSON value that is not
\* an object
InvalidJsonLine == [raw |-> "invalid json"]

NonObjectLine == [raw |-> "json value"]

\* json.loads(line) returns
LineDecodes(line) == line # InvalidJsonLine

\* json.loads(line) returns a dict
LineIsObject(line) == "raw" \notin DOMAIN line

RECURSIVE QueryRaises(_, _, _, _, _)
\* the loop of query_logs ends in an exception: the inner except names
\* json.JSONDecodeError only and the outer one FileNotFoundError only, so the
\* AttributeError of entry.get or the TypeError of entry['timestamp'] on a
\* value that is not a dict, and the KeyError of entry['timestamp'] on a
\* dict without it, leave query_logs
QueryRaises(log, symbol, start_time, end_time, limit) ==
    IF log = <<>> \/ limit <= 0 THEN FALSE
    ELSE LET entry == Head(log)
         IN IF ~LineDecodes(entry)
            THEN QueryRaises(Tail(log), symbol, start_time, end_time, limit)
            ELSE IF ~LineIsObject(entry) THEN TRUE
            ELSE IF symbol # None /\ entry.symbol # Upper(symbol[1])
            THEN QueryRaises(Tail(log), symbol, start_time, end_time, limit)
            ELSE IF "timestamp" \notin DOMAIN entry THEN TRUE
            ELSE IF \/ start_time # None
                          /\ entry.timestamp.time < start_time[1]
                    \/ end_time # None
                          /\ entry.timestamp.time > end_time[1]
            THEN QueryRaises(Tail(log), symbol, start_time, end_time, limit)
            ELSE QueryRaises(Tail(log), symbol, start_time, end_time,
                             limit - 1)

RECURSIVE FilterLogs(_, _, _, _, _)
\* the loop of query_logs when it ends without an exception: the first limit
\* entries, in file order, that pass the symbol and time filters
FilterLogs(log, symbol, start_time, end_time, limit) ==
    IF log = <<>> \/ limit <= 0 THEN <<>>
    ELSE LET entry == Head(log)
             skip == \/ ~LineDecodes(entry)
                     \/ symbol # None /\ entry.symbol # Upper(symbol[1])
                     \/ start_time # None
                            /\ entry.timestamp.time < start_time[1]
                     \/ end_time # None
                            /\ entry.timestamp.time > end_time[1]
         IN IF skip
            THEN FilterLogs(Tail(log), symbol, start_time, end_time, limit)
            ELSE <<entry>> \o FilterLogs(Tail(log), symbol, start_time,
                                         end_time, limit - 1)

Reverse(seq) == [i \in 1 .. Len(seq) |-> seq[Len(seq) + 1 - i]]

\* query_logs: the matching entries, newest first (the file is in time order)
query_logs(log, symbol, start_time, end_time, limit) ==
    Reverse(FilterLogs(log, symbol, start_time, end_time, limit))

\* get_statistics over the last day: an entry without firewall_result counts
\* as rejected
get_statistics(log, symbol, now) ==
    LET logs == query_logs(log, symbol, Some(now - 24 * 60), Some(now), 10000)
        Fr(entry) == Get(entry, "firewall_result", EmptyDict)
        Allowed(entry) == Get(Fr(entry), "allowed", FALSE)
        Final(entry) == Get(Fr(entry), "final_action", "HOLD")
        IsBuy(entry) == Allowed(entry) /\ Final(entry) = "BUY"
        IsSell(entry) == Allowed(entry) /\ Final(entry) = "SELL"
        IsRejected(entry) == ~Allowed(entry)
        CountWhere(seq, P(_)) ==
            Cardinality({i \in 1 .. Len(seq) : P(seq[i])})
    IN [total_decisions |-> Len(logs),
        allowed |-> CountWhere(logs, Allowed),
        rejected |-> CountWhere(logs, IsRejected),
        buy |-> CountWhere(logs, IsBuy),
        sell |-> CountWhere(logs, IsSell),
        hold |-> CountWhere(logs, IsRejected)]

-----------------------------------------------------------------------------
(* The broker (USStockTradingInterface / USStockTradingSimulator) *)

\* get_all_positions: the positions as a list
get_all_positions(held) ==
    (IF "AAPL" \in DOMAIN held THEN <<held["AAPL"]>> ELSE <<>>)
    \o (IF "MSFT" \in DOMAIN held THEN <<held["MSFT"]>> ELSE <<>>)

\* d without key k
Del(d, k) == [x \in (DOMAIN d) \ {k} |-> d[x]]

\* the positions after buy_stock; broker_ok is the broker's answer
buy_stock(held, symbol, quantity, price, broker_ok) ==
    IF ~broker_ok THEN held
    ELSE IF Upper(symbol) \in DOMAIN held
    THEN LET pos == held[Upper(symbol)]
             total_qty == pos.quantity + quantity
         IN Put(held, Upper(symbol),
                [pos EXCEPT !.quantity = total_qty,
                            !.avg_entry_price =
                                (pos.quantity * pos.avg_entry_price
                                 + quantity * price) \div total_qty])
    ELSE Put(held, Upper(symbol),
             Position(Upper(symbol), price, quantity, price))

\* sell_stock succeeds only on a held position of at least that quantity
SellAccepted(held, symbol, quantity, broker_ok) ==
    /\ broker_ok
    /\ Upper(symbol) \in DOMAIN held
    /\ quantity <= held[Upper(symbol)].quantity

\* the positions after sell_stock
sell_stock(held, symbol, quantity, broker_ok) ==
    IF ~SellAccepted(held, symbol, quantity, broker_ok) THEN held
    ELSE IF held[Upper(symbol)].quantity = quantity
    THEN Del(held, Upper(symbol))
    ELSE Put(held, Upper(symbol),
             [held[Upper(symbol)] EXCEPT !.quantity = @ - quantity])

\* one call of buy_stock or sell_stock as the broker saw it; verdict is the
\* firewall verdict the caller held for it, None when it had none
Order(symbol, side, via, now, success, verdict) ==
    [symbol |-> Upper(symbol), side |-> side, via |-> via, time |-> now,
     success |-> success, verdict |-> verdict]

-----------------------------------------------------------------------------
(* AlpacaAIDecision: the advisory call of the v2 cycle *)

\* what json.loads makes of a text: a JSONDecodeError; a number, true,
\* false or null, on which 'in' raises TypeError; a list or a string, on
\* which 'in' answers for the items and .get raises AttributeError; an
\* object with its fields.  The confidence of an object is what int() makes
\* of the value: Some(n), or None when int() raises.
JsonInvalid == [type |-> "invalid"]

JsonNumber == [type |-> "number"]

JsonArray(items) == [type |-> "array", items |-> items]

JsonObject(fields) == [type |-> "object", fields |-> fields]

\* a response text by what each extraction finds in it: the content of the
\* first ```json fence, of the first ``` fence, of the first '{' to the last
\* '}', and the whole text, each as json.loads reads it; None where the text
\* has no such fence or braces
ResponseText(json_fence, fence, braces, raw) ==
    [json_fence |-> json_fence, fence |-> fence, braces |-> braces,
     raw |-> raw]

\* _parse_proposal_v2: the if/elif chain that picks json_str, and json.loads
ExtractJson(response_text) ==
    IF response_text.json_fence # None THEN response_text.json_fence[1]
    ELSE IF response_text.fence # None THEN response_text.fence[1]
    ELSE IF response_text.braces # None THEN response_text.braces[1]
    ELSE response_text.raw

\* the conservative proposal _parse_proposal_v2 returns when parsing fails
ParseFailedProposal(snapshot) ==
    [symbol |-> snapshot.symbol, proposed_action |-> "HOLD",
     confidence |-> 0, evidence |-> EmptyDict, params |-> EmptyDict,
     risk_level |-> "high",
     counter_evidence |-> <<"Data parsing error",
                            "Unable to generate valid decision">>,
     notes |-> "LLM output parsing failed, using conservative strategy"]

\* the statements of the try block raise
ParseRaises(data) ==
    \/ data.type \in {"invalid", "number", "array"}
    \/ /\ data.type = "object"
       /\ \/ "proposed_action" \notin DOMAIN data.fields
          \/ "confidence" \notin DOMAIN data.fields
          \/ data.fields.confidence = None

\* the LLMProposal built from the object d, with the integrity check
ProposalOf(d, confidence, snapshot) ==
    LET proposal ==
            [symbol |-> Get(d, "symbol", snapshot.symbol),
             proposed_action |-> d.proposed_action,
             confidence |-> confidence,
             evidence |-> Get(d, "evidence", EmptyDict),
             params |-> Get(d, "params", Params(20, 50, 100)),
             risk_level |-> Get(d, "risk_level", "medium"),
             counter_evidence |-> Get(d, "counter_evidence", <<>>),
             notes |-> Get(d, "notes", "")]
    IN IF snapshot.missing_fields # <<>> /\ proposal.proposed_action = "BUY"
       THEN [proposal EXCEPT !.proposed_action = "HOLD",
                             !.confidence = Max(0, @ - 20)]
       ELSE proposal

\* mutant: an object without a confidence goes through with confidence 0
ParseProposalDefaultingConfidence(response_text, snapshot) ==
    LET data == ExtractJson(response_text)
    IN IF data.type = "object" /\ "proposed_action" \in DOMAIN data.fields
          /\ "confidence" \notin DOMAIN data.fields
       THEN ProposalOf(data.fields, 0, snapshot)
       ELSE IF ParseRaises(data) THEN ParseFailedProposal(snapshot)
       ELSE ProposalOf(data.fields, data.fields.confidence[1], snapshot)

\* _parse_proposal_v2(ai_response, snapshot): the except clause returns the
\* conservative proposal for whatever the try block raised
_parse_proposal_v2(response_text, snapshot) ==
    LET data == ExtractJson(response_text)
    IN IF ParseRaises(data) THEN ParseFailedProposal(snapshot)
       ELSE ProposalOf(data.fields, data.fields.confidence[1], snapshot)

\* analyze_and_decide_v2: llm is the outcome of _call_deepseek, an error or
\* a response
analyze_and_decide_v2(snapshot, llm) ==
    IF ~snapshot.has_valid_price
    THEN [success |-> FALSE, proposal |-> None]
    ELSE IF llm.kind = "error"
    THEN [success |-> FALSE,
          proposal |-> Some([ParseFailedProposal(snapshot)
                                EXCEPT !.counter_evidence = <<>>])]
    ELSE [success |-> TRUE,
          proposal |-> Some(_parse_proposal_v2(llm.data[1], snapshot))]

-----------------------------------------------------------------------------
(* AlpacaStrategyManager *)

\* mutant: a blocked verdict keeps the action the firewall allowed
StateMachineGateKeepingAction(firewall_result, states, symbol, snapshot) ==
    LET final_action == firewall_result.final_action
        can_execute ==
            IF final_action = "BUY" THEN can_open_position(states, symbol)
            ELSE IF final_action = "SELL"
            THEN can_close_position(states, symbol) \/ snapshot.has_position
            ELSE FALSE
    IN [firewall_result |->
            IF final_action \in {"BUY", "SELL"} /\ ~can_execute
            THEN [firewall_result EXCEPT
                    !.allowed = FALSE,
                    !.reject_reasons =
                        Append(@, Text("State machine does not allow", 0, 0)),
                    !.reason_codes = Append(@, "STATE_MACHINE_BLOCK")]
            ELSE firewall_result,
        final_action |-> final_action,
        can_execute |-> can_execute]

\* execute_ai_strategy_v2, step 6: the verdict as the state machine leaves
\* it, the local final_action and can_execute
StateMachineGate(firewall_result, states, symbol, snapshot) ==
    LET final_action == firewall_result.final_action
        can_execute ==
            IF final_action = "BUY" THEN can_open_position(states, symbol)
            ELSE IF final_action = "SELL"
            THEN can_close_position(states, symbol) \/ snapshot.has_position
            ELSE FALSE
    IN [firewall_result |->
            IF final_action \in {"BUY", "SELL"} /\ ~can_execute
            THEN [firewall_result EXCEPT
                    !.allowed = FALSE,
                    !.final_action = "HOLD",
                    !.reject_reasons =
                        Append(@, Text("State machine does not allow", 0, 0)),
                    !.reason_codes = Append(@, "STATE_MACHINE_BLOCK")]
            ELSE firewall_result,
        final_action |-> final_action,
        can_execute |-> can_execute]

\* the result of an execution that called the broker or gave up before
ExecutionResult(submitted, success, side, quantity, price) ==
    [submitted |-> submitted, success |-> success, side |-> side,
     quantity |-> quantity, price |-> price]

NotSubmitted == ExecutionResult(FALSE, FALSE, "", 0, 0)

\* _execute_buy: account is get_account_info() at that moment
_execute_buy(decision, market_data, account, broker_ok) ==
    IF ~account.success THEN NotSubmitted
    ELSE LET position_size_pct == Get(decision, "position_size_pct", 20)
             current_price == Get(market_data, "current_price", 0)
         IN IF current_price <= 0 THEN NotSubmitted
            ELSE LET quantity ==
                         ((account.buying_power * position_size_pct) \div 100)
                             \div current_price
                 IN IF quantity < 1 THEN NotSubmitted
                    ELSE ExecutionResult(TRUE, broker_ok, "BUY", quantity,
                                         current_price)

\* _execute_sell: sells the whole position
_execute_sell(held, symbol, market_data, position_quantity, broker_ok) ==
    ExecutionResult(TRUE,
                    SellAccepted(held, symbol, position_quantity, broker_ok),
                    "SELL", position_quantity,
                    Get(market_data, "current_price", 0))

\* the decision dict _execute_firewall_decision builds for a BUY
FirewallDecision(params) ==
    [action |-> "BUY",
     position_size_pct |-> Get(params, "position_size_pct", 20),
     stop_loss_pct |-> Get(params, "stop_loss_pct", 50),
     take_profit_pct |-> Get(params, "take_profit_pct", 100)]

\* _execute_firewall_decision
_execute_firewall_decision(held, symbol, firewall_result, snapshot, market_data, account, broker_ok) ==
    LET action == firewall_result.final_action
        params == firewall_result.final_params
    IN IF action = "BUY" /\ ~snapshot.has_position
       THEN _execute_buy(FirewallDecision(params), market_data, account,
                         broker_ok)
       ELSE IF action = "SELL" /\ snapshot.has_position
       THEN _execute_sell(held, symbol, market_data,
                          snapshot.position_quantity, broker_ok)
       ELSE NotSubmitted

\* _execute_ai_decision of the first-version strategy
_execute_ai_decision(held, symbol, decision, market_data, has_position, position_quantity, account, broker_ok) ==
    IF decision.action = "BUY" /\ ~has_position
    THEN _execute_buy(decision, market_data, account, broker_ok)
    ELSE IF decision.action = "SELL" /\ has_position
    THEN _execute_sell(held, symbol, market_data, position_quantity,
                       broker_ok)
    ELSE NotSubmitted

\* the broker's positions after an execution
HeldAfter(held, symbol, execution_result, broker_ok) ==
    IF ~execution_result.submitted THEN held
    ELSE IF execution_result.side = "BUY"
    THEN buy_stock(held, symbol, execution_result.quantity,
                   execution_result.price, broker_ok)
    ELSE sell_stock(held, symbol, execution_result.quantity, broker_ok)

\* _save_monitored_position after a successful buy, _update_position_status
\* after a successful sell
MonitoredAfter(monitored, symbol, decision, execution_result) ==
    IF ~execution_result.success THEN monitored
    ELSE IF execution_result.side = "BUY"
    THEN Put(monitored, symbol,
             [cost_price |-> execution_result.price,
              stop_loss_pct |-> Get(decision, "stop_loss_pct", 50),
              take_profit_pct |-> Get(decision, "take_profit_pct", 100)])
    ELSE Del(monitored, symbol)

\* the calls the broker received, after an execution
OrdersAfter(orders, symbol, via, now, execution_result, verdict) ==
    IF execution_result.submitted
    THEN Append(orders, Order(symbol, execution_result.side, via, now,
                              execution_result.success, verdict))
    ELSE orders

\* _update_risk_state
_update_risk_state(risk_state, symbol, now) ==
    LET m == risk_state.last_trade_time_by_symbol
        m1 == IF symbol \notin DOMAIN m THEN EmptyDict ELSE m
    IN [risk_state EXCEPT !.last_trade_time_by_symbol = Put(m1, symbol, now)]

\* the dict a snapshot holds as last_trade_time_by_symbol, after
\* _update_risk_state: the snapshot holds the risk state's own dict
\* (risk_state.get('last_trade_time_by_symbol', {}) without a copy), which
\* the update writes in place when the symbol is a key of it and replaces by
\* a new dict otherwise
AliasedLastTrades(held_map, risk_state, symbol, now) ==
    IF symbol \in DOMAIN risk_state.last_trade_time_by_symbol
    THEN Put(risk_state.last_trade_time_by_symbol, symbol, now)
    ELSE held_map

\* the profit or loss of a position against a cost price, in tenths of a
\* percent
ProfitLossPct(current_price, cost_price) ==
    IF cost_price > 0
    THEN ((current_price - cost_price) * 1000) \div cost_price
    ELSE 0

\* check_stop_loss_take_profit: the symbols with a SELL signal, one entry
\* per signal
check_stop_loss_take_profit(held, monitored) ==
    LET SignalsOf(symbol) ==
            IF symbol \notin DOMAIN monitored \/ symbol \notin DOMAIN held
            THEN <<>>
            ELSE LET pnl == ProfitLossPct(
                                Get(held[symbol], "current_price",
                                    held[symbol].avg_entry_price),
                                monitored[symbol].cost_price)
                 IN (IF pnl <= -monitored[symbol].stop_loss_pct
                     THEN <<symbol>> ELSE <<>>)
                    \o (IF pnl >= monitored[symbol].take_profit_pct
                        THEN <<symbol>> ELSE <<>>)
    IN SignalsOf("AAPL") \o SignalsOf("MSFT")

\* the rows check_stop_loss_take_profit marks sold: no position any more
MonitoredStillHeld(held, monitored) ==
    [symbol \in (DOMAIN monitored) \cap (DOMAIN held) |-> monitored[symbol]]

RECURSIVE SweepSell(_, _, _, _)
\* AlpacaAutoTrader._check_stop_loss_take_profit: the loop over the signals;
\* st holds the positions, the monitored rows and the broker's calls
SweepSell(signals, st, broker_ok, now) ==
    IF signals = <<>> THEN st
    ELSE LET symbol == Head(signals)
             position_quantity ==
                 IF symbol \in DOMAIN st.held THEN st.held[symbol].quantity
                 ELSE 0
             success == SellAccepted(st.held, symbol, position_quantity,
                                     broker_ok[symbol])
             st1 == IF position_quantity > 0
                    THEN [held |-> sell_stock(st.held, symbol,
                                              position_quantity,
                                              broker_ok[symbol]),
                          monitored |-> IF success
                                        THEN Del(st.monitored, symbol)
                                        ELSE st.monitored,
                          orders |-> Append(st.orders,
                                            Order(symbol, "SELL", "sweep",
                                                  now, success, None))]
                    ELSE st
         IN SweepSell(Tail(signals), st1, broker_ok, now)

-----------------------------------------------------------------------------
(* The monitor loop of AlpacaAutoTrader, the manual strategy button and the  *)
(* readers of the audit log                                                  *)

\* self.check_interval = 300 seconds, in minutes
check_interval == 5

\* the loop starts at 15:30 and runs while the clock is at most PipeLastClock
PipeStart == 930

PipeLastClock == 938

\* at most MaxManual orders come from the manual button, at most
\* MaxRejections entries from log_rejection
MaxManual == 1

MaxRejections == 1

\* at most MaxEntryIds entry ids are generated
MaxEntryIds == 5

\* get_active_tasks('ai_decision'): the symbols of the enabled tasks
ActiveTasks == <<"AAPL", "MSFT">>

\* a monitored_positions row as _save_monitored_position writes it
MonitoredRow(cost_price, stop_loss_pct, take_profit_pct) ==
    [cost_price |-> cost_price, stop_loss_pct |-> stop_loss_pct,
     take_profit_pct |-> take_profit_pct]

\* what an earlier run of the program left at the broker: nothing, or a
\* position in AAPL bought at 100.00 that now stands at 0%, -5% or +10%
InitialHoldings ==
    {EmptyDict}
    \cup {[s \in {"AAPL"} |-> Position("AAPL", 10000, 10, current_price)] :
            current_price \in {10000, 9500, 11000}}

\* get_account_info(): a failure, 100,000.00 of buying power, 1.00 of it
AccountSet ==
    {[success |-> FALSE, buying_power |-> 0],
     [success |-> TRUE, buying_power |-> 10000000],
     [success |-> TRUE, buying_power |-> 100]}

\* get_market_data(symbol): None on failure
PipeMarketData == {None, Some(MdStrong), Some(MdNoPrice)}

\* the JSON object of an advisory response: scenario 1 with the action a
LlmData(a) ==
    [proposed_action |-> a, confidence |-> Some(78),
     evidence |-> [trend_ok |-> TRUE, macd_ok |-> TRUE, volume_ok |-> TRUE],
     params |-> Params(25, 40, 120),
     counter_evidence |-> <<"risk 1", "risk 2">>]

\* _call_deepseek: an exception, a response without a JSON object (which
\* the parser turns into a HOLD proposal), a response proposing BUY, SELL or
\* an action the system does not know
LlmOutcomes ==
    {[kind |-> "error", data |-> None],
     [kind |-> "response",
      data |-> Some(ResponseText(None, None, None, JsonInvalid))]}
    \cup {[kind |-> "response",
           data |-> Some(ResponseText(Some(JsonObject(LlmData(a))),
                                      Some(JsonInvalid),
                                      Some(JsonObject(LlmData(a))),
                                      JsonInvalid))] :
            a \in {"BUY", "SELL", "SHORT"}}

\* the decisions _parse_decision returns to the first-version strategy
DecisionSet ==
    {[action |-> a, position_size_pct |-> 20, stop_loss_pct |-> 50,
      take_profit_pct |-> 100] : a \in {"BUY", "SELL", "HOLD"}}

PipeInit ==
    /\ FwIdle
    /\ sm_states = EmptyDict
    /\ sm_clock = PipeStart
    /\ sm_call = None
    /\ mg_risk_state = [day_pnl_pct |-> 0, consecutive_losses |-> 0,
                        last_trade_time_by_symbol |-> EmptyDict]
    /\ mg_cycle = None
    /\ mg_other = None
    /\ ai_response = None
    /\ br_positions \in InitialHoldings
    /\ br_orders = <<>>
    /\ db_monitored = [s \in DOMAIN br_positions |->
                          MonitoredRow(br_positions[s].avg_entry_price, 50,
                                       100)]
    /\ audit_log = <<>>
    /\ log_calls = 0
    /\ loop_pc = "sweep"
    /\ task_idx = 0
    /\ iterations = 0
    /\ at_running = TRUE
    /\ at_threads = <<>>
    /\ last_query = None

\* _monitor_loop, step 1: _check_stop_loss_take_profit
Sweep ==
    /\ loop_pc = "sweep"
    /\ \E broker_ok \in [Symbols -> BOOLEAN] :
          LET signals == check_stop_loss_take_profit(br_positions,
                                                     db_monitored)
              st == SweepSell(signals,
                              [held |-> br_positions,
                               monitored |-> MonitoredStillHeld(br_positions,
                                                                db_monitored),
                               orders |-> br_orders],
                              broker_ok, sm_clock)
          IN /\ br_positions' = st.held
             /\ db_monitored' = st.monitored
             /\ br_orders' = st.orders
    /\ loop_pc' = "tasks"
    /\ task_idx' = 1
    /\ UNCHANGED <<mg_risk_state, mg_cycle, audit_log, log_calls, iterations,
                   last_query>>
    /\ UNCHANGED <<mg_other, ai_response>>
    /\ UNCHANGED <<at_running, at_threads>>
    /\ UNCHANGED fw_vars
    /\ UNCHANGED sm_vars

\* the record of an execute_ai_strategy_v2 call that returned before the
\* firewall was asked; the return value of a call whose advisory step failed
\* carries the snapshot ('snapshot': snapshot.to_dict())
ReturnedEarly(symbol, snapshot_built) ==
    [stage |-> "returned", symbol |-> symbol,
     snapshot_built |-> snapshot_built, log_before |-> Len(audit_log),
     entry_id |-> None, proposed_action |-> None, checked |-> None,
     gated |-> None, final_action |-> "", can_execute |-> FALSE,
     snapshot |-> None, market_data |-> None, order_fill |-> None,
     last_trade_built |-> None, last_trade_held |-> None,
     had_position |-> FALSE]

\* the loop position after the task at task_idx
AfterTask == IF task_idx >= Len(ActiveTasks) THEN "sleep" ELSE "tasks"

\* execute_ai_strategy_v2, steps 6 and 7: the state machine's gate and
\* log_decision
V2Log(symbol, market_data_result, snapshot, proposal, firewall_result, write_ok) ==
    LET gate == StateMachineGate(firewall_result, sm_states, symbol,
                                 snapshot)
        order_request ==
            IF gate.firewall_result.allowed
            THEN Some([action |-> gate.final_action, symbol |-> symbol])
            ELSE None
        entry_id == EntryId(symbol, sm_clock, log_calls)
    IN /\ audit_log' =
              WriteEntry(audit_log,
                         DecisionEntry(entry_id, symbol, proposal,
                                       gate.firewall_result, order_request,
                                       None),
                         write_ok)
       /\ log_calls' = log_calls + 1
       /\ mg_cycle' =
              Some([stage |-> "logged", symbol |-> symbol,
                    snapshot_built |-> TRUE,
                    log_before |-> Len(audit_log),
                    entry_id |-> Some(entry_id),
                    proposed_action |-> Some(proposal.proposed_action),
                    checked |-> Some(firewall_result),
                    gated |-> Some(gate.firewall_result),
                    final_action |-> gate.final_action,
                    can_execute |-> gate.can_execute,
                    snapshot |-> Some(snapshot),
                    market_data |-> market_data_result,
                    order_fill |-> None,
                    last_trade_built |->
                        Some(snapshot.last_trade_time_by_symbol),
                    last_trade_held |->
                        Some(snapshot.last_trade_time_by_symbol),
                    had_position |-> snapshot.has_position])
       /\ loop_pc' = "execute"
       /\ UNCHANGED task_idx

\* execute_ai_strategy_v2(symbol, auto_trade=True), steps 1 to 7: from the
\* account information to log_decision
V2Decide ==
    /\ loop_pc = "tasks"
    /\ task_idx \in 1 .. Len(ActiveTasks)
    /\ \E account \in AccountSet, market_data_result \in PipeMarketData :
          LET symbol == ActiveTasks[task_idx]
          IN IF ~account.success \/ market_data_result = None
             THEN /\ mg_cycle' = Some(ReturnedEarly(symbol, FALSE))
                  /\ loop_pc' = AfterTask
                  /\ task_idx' = task_idx + 1
                  /\ UNCHANGED <<audit_log, log_calls>>
             ELSE \E llm \in LlmOutcomes,
                     snapshot \in {from_market_data(
                                       symbol, market_data_result[1],
                                       get_all_positions(br_positions),
                                       mg_risk_state, sm_clock)} :
                    \E llm_result \in {analyze_and_decide_v2(snapshot, llm)} :
                       IF ~llm_result.success
                       THEN /\ mg_cycle' =
                                   Some([ReturnedEarly(symbol, TRUE)
                                           EXCEPT !.snapshot = Some(snapshot)])
                            /\ loop_pc' = AfterTask
                            /\ task_idx' = task_idx + 1
                            /\ UNCHANGED <<audit_log, log_calls>>
                       ELSE \E write_ok \in BOOLEAN,
                               firewall_result \in
                                   {check(llm_result.proposal[1], snapshot,
                                          sm_clock)} :
                              V2Log(symbol, market_data_result, snapshot,
                                    llm_result.proposal[1], firewall_result,
                                    write_ok)
    /\ UNCHANGED <<mg_risk_state, br_positions, br_orders, db_monitored,
                   iterations, last_query>>
    /\ UNCHANGED <<mg_other, ai_response>>
    /\ UNCHANGED <<at_running, at_threads>>
    /\ UNCHANGED fw_vars
    /\ UNCHANGED sm_vars

\* the verdict as an order carries it
VerdictOf(firewall_result) ==
    [allowed |-> firewall_result.allowed,
     final_action |-> firewall_result.final_action]

\* execute_ai_strategy_v2, steps 8 and 9: the order, the state machine, the
\* risk state, and the return
V2Execute ==
    /\ loop_pc = "execute"
    /\ \E account \in AccountSet, broker_ok \in BOOLEAN :
          LET c == mg_cycle[1]
              firewall_result == c.gated[1]
              snapshot == c.snapshot[1]
              execution_result ==
                  _execute_firewall_decision(br_positions, c.symbol,
                                             firewall_result, snapshot,
                                             c.market_data[1], account,
                                             broker_ok)
          IN IF firewall_result.allowed /\ c.can_execute
             THEN /\ br_positions' = HeldAfter(br_positions, c.symbol,
                                               execution_result, broker_ok)
                  /\ db_monitored' =
                         MonitoredAfter(db_monitored, c.symbol,
                                        FirewallDecision(
                                            firewall_result.final_params),
                                        execution_result)
                  /\ br_orders' = OrdersAfter(br_orders, c.symbol, "v2",
                                              sm_clock, execution_result,
                                              Some(VerdictOf(firewall_result)))
                  /\ sm_states' = transition(sm_states, c.symbol,
                                             c.final_action,
                                             snapshot.has_position, sm_clock)
                  /\ mg_risk_state' =
                         IF execution_result.success
                         THEN _update_risk_state(mg_risk_state, c.symbol,
                                                 sm_clock)
                         ELSE mg_risk_state
                  /\ mg_cycle' =
                         Some([c EXCEPT
                                 !.stage = "returned",
                                 !.snapshot = None,
                                 !.market_data = None,
                                 !.order_fill =
                                     IF execution_result.success
                                     THEN Some([quantity |->
                                                    execution_result.quantity,
                                                price |->
                                                    execution_result.price])
                                     ELSE None,
                                 !.last_trade_held =
                                     IF execution_result.success
                                     THEN Some(AliasedLastTrades(
                                                   @[1], mg_risk_state,
                                                   c.symbol, sm_clock))
                                     ELSE @])
             ELSE /\ mg_cycle' = Some([c EXCEPT !.stage = "returned",
                                                !.snapshot = None,
                                                !.market_data = None])
                  /\ UNCHANGED <<br_positions, db_monitored, br_orders,
                                 sm_states, mg_risk_state>>
    /\ loop_pc' = AfterTask
    /\ task_idx' = task_idx + 1
    /\ UNCHANGED <<audit_log, log_calls, iterations, last_query>>
    /\ UNCHANGED <<mg_other, ai_response>>
    /\ UNCHANGED <<at_running, at_threads>>
    /\ UNCHANGED fw_vars
    /\ UNCHANGED <<sm_clock, sm_call>>

\* _monitor_loop, step 3: time.sleep(self.check_interval)
Sleep ==
    /\ loop_pc = "sleep"
    /\ sm_clock + check_interval <= PipeLastClock
    /\ sm_clock' = sm_clock + check_interval
    /\ iterations' = iterations + 1
    /\ loop_pc' = "sweep"
    /\ task_idx' = 0
    /\ UNCHANGED <<mg_risk_state, mg_cycle, br_positions, br_orders,
                   db_monitored, audit_log, log_calls, last_query>>
    /\ UNCHANGED <<mg_other, ai_response>>
    /\ UNCHANGED <<at_running, at_threads>>
    /\ UNCHANGED fw_vars
    /\ UNCHANGED <<sm_states, sm_call>>

\* the number of orders that came from the manual button
ManualOrders ==
    Cardinality({i \in 1 .. Len(br_orders) : br_orders[i].via = "v1"})

\* the loop has run its last iteration
LoopDone == loop_pc = "sleep" /\ sm_clock + check_interval > PipeLastClock

\* the manual button of app.py: execute_ai_strategy(symbol, auto_trade=True),
\* pressed after the loop's last iteration
ManualExecute ==
    /\ LoopDone
    /\ ManualOrders < MaxManual
    /\ \E symbol \in {"AAPL"}, account \in AccountSet,
          market_data \in {Some(MdStrong), None}, decision \in DecisionSet,
          broker_ok \in BOOLEAN :
          LET pf == PositionFacts(get_all_positions(br_positions), symbol,
                                  0, NoPosition)
              execution_result ==
                  _execute_ai_decision(br_positions, symbol, decision,
                                       market_data[1], pf.has_position,
                                       pf.position_quantity, account,
                                       broker_ok)
          IN IF ~account.success \/ market_data = None
             THEN UNCHANGED <<br_positions, db_monitored, br_orders>>
             ELSE /\ br_positions' = HeldAfter(br_positions, symbol,
                                               execution_result, broker_ok)
                  /\ db_monitored' = MonitoredAfter(db_monitored, symbol,
                                                    decision,
                                                    execution_result)
                  /\ br_orders' = OrdersAfter(br_orders, symbol, "v1",
                                              sm_clock, execution_result,
                                              None)
    /\ UNCHANGED <<mg_risk_state, mg_cycle, audit_log, log_calls, loop_pc,
                   task_idx, iterations, last_query>>
    /\ UNCHANGED <<mg_other, ai_response>>
    /\ UNCHANGED <<at_running, at_threads>>
    /\ UNCHANGED fw_vars
    /\ UNCHANGED sm_vars

\* the number of entries log_rejection wrote
Rejections ==
    Cardinality({i \in 1 .. Len(audit_log) :
                    "action" \in DOMAIN audit_log[i]})

\* a caller of AuditLogger.log_rejection
LogRejection ==
    /\ Rejections < MaxRejections
    /\ log_calls < MaxEntryIds
    /\ \E symbol \in Symbols, write_ok \in BOOLEAN :
          audit_log' = WriteEntry(audit_log,
                                  RejectionEntry(EntryId(symbol, sm_clock,
                                                         log_calls),
                                                 symbol, "MISSING_DATA"),
                                  write_ok)
    /\ log_calls' = log_calls + 1
    /\ UNCHANGED <<mg_risk_state, mg_cycle, br_positions, br_orders,
                   db_monitored, loop_pc, task_idx, iterations, last_query>>
    /\ UNCHANGED <<mg_other, ai_response>>
    /\ UNCHANGED <<at_running, at_threads>>
    /\ UNCHANGED fw_vars
    /\ UNCHANGED sm_vars

\* a reader calls query_logs
QueryLogs ==
    /\ \E symbol \in {None, Some("aapl")}, limit \in {1, 100} :
          last_query' =
              IF QueryRaises(audit_log, symbol, None, Some(sm_clock), limit)
              THEN Some([raised |-> "query_logs"])
              ELSE Some([logs |-> query_logs(audit_log, symbol, None,
                                             Some(sm_clock), limit)])
    /\ UNCHANGED <<mg_risk_state, mg_cycle, br_positions, br_orders,
                   db_monitored, audit_log, log_calls, loop_pc, task_idx,
                   iterations>>
    /\ UNCHANGED <<mg_other, ai_response>>
    /\ UNCHANGED <<at_running, at_threads>>
    /\ UNCHANGED fw_vars
    /\ UNCHANGED sm_vars

\* a reader calls get_statistics
GetStatistics ==
    /\ last_query' =
           IF QueryRaises(audit_log, None, Some(sm_clock - 24 * 60),
                          Some(sm_clock), 10000)
           THEN Some([raised |-> "get_statistics"])
           ELSE Some([statistics |->
                          get_statistics(audit_log, None, sm_clock)])
    /\ UNCHANGED <<mg_risk_state, mg_cycle, br_positions, br_orders,
                   db_monitored, audit_log, log_calls, loop_pc, task_idx,
                   iterations>>
    /\ UNCHANGED <<mg_other, ai_response>>
    /\ UNCHANGED <<at_running, at_threads>>
    /\ UNCHANGED fw_vars
    /\ UNCHANGED sm_vars

PipeNext ==
    \/ Sweep
    \/ V2Decide
    \/ V2Execute
    \/ Sleep
    \/ ManualExecute

PipeSpec == PipeInit /\ [][PipeNext]_vars

-----------------------------------------------------------------------------
(* The audit log under one iteration of the loop, log_rejection and the      *)
(* readers                                                                   *)

AuditInit ==
    /\ PipeInit
    /\ br_positions = EmptyDict

AuditNext ==
    \/ Sweep
    \/ V2Decide
    \/ V2Execute
    \/ LogRejection
    \/ QueryLogs
    \/ GetStatistics

AuditSpec == AuditInit /\ [][AuditNext]_vars

-----------------------------------------------------------------------------
(* Properties of HardDecisionFirewall.check, under FwSpec *)

Checked == fw_result # None

Snap == fw_snapshot[1]

Prop == fw_proposal[1]

Res == fw_result[1]

HasCode(result, code) ==
    \E i \in 1 .. Len(result.reason_codes) : result.reason_codes[i] = code

\* an open position whose P/L is at or below the hard-stop threshold
AtHardStop(snapshot) ==
    snapshot.has_position /\ snapshot.position_pnl_pct <= hard_stop_loss_pct

HasLastTrade(snapshot) ==
    snapshot.symbol \in DOMAIN snapshot.last_trade_time_by_symbol

\* minutes between the symbol's last trade and the clock reading
Elapsed(snapshot, now) ==
    now - snapshot.last_trade_time_by_symbol[snapshot.symbol]

InBand(params, key, lo, hi) ==
    key \in DOMAIN params => lo <= params[key] /\ params[key] <= hi

OutOfBand(params, key, lo, hi) ==
    key \in DOMAIN params /\ (params[key] < lo \/ params[key] > hi)

\* a BUY proposal that fails none of the checks other than the stop-loss
\* and take-profit bands
PassesOtherChecks(proposal, snapshot, now) ==
    /\ proposal.proposed_action = "BUY"
    /\ snapshot.price > 0
    /\ snapshot.missing_fields = <<>>
    /\ ~AtHardStop(snapshot)
    /\ snapshot.session = "regular"
    /\ snapshot.spread = None \/ snapshot.spread[1] <= max_spread
    /\ snapshot.liquidity_score = None
          \/ snapshot.liquidity_score[1] >= min_liquidity_score
    /\ snapshot.buy_rule_count >= min_buy_rule_count
    /\ proposal.confidence >= min_confidence_buy
    /\ ~(snapshot.trend_ok /\ ~snapshot.macd_ok /\ ~snapshot.volume_ok)
    /\ ~(Get(proposal.evidence, "trend_ok", FALSE)
         /\ ~Get(proposal.evidence, "macd_ok", FALSE)
         /\ ~Get(proposal.evidence, "volume_ok", FALSE))
    /\ Get(proposal.params, "position_size_pct", 0) <= max_position_size_pct
    /\ snapshot.day_pnl_pct > day_circuit_breaker_pct
    /\ HasLastTrade(snapshot) => Elapsed(snapshot, now) >= cooldown_minutes

\* C1, as claimed: whenever the snapshot has an open position at or below
\* the hard-stop threshold, the verdict is allowed with final_action SELL,
\* whatever the other snapshot fields are, price validity included.
C1_HardStopWhateverThePrice ==
    Checked /\ AtHardStop(Snap)
        => Res.allowed /\ Res.final_action = "SELL"

\* C1, amended: whenever the snapshot has a valid price and an open position
\* at or below the hard-stop threshold, the verdict is allowed with
\* final_action SELL, whatever the proposal and the other snapshot fields.
C1_HardStopDominance ==
    Checked /\ Snap.price > 0 /\ AtHardStop(Snap)
        => Res.allowed /\ Res.final_action = "SELL"

\* C1 witness: a BUY proposal checked on a valid-price snapshot with the
\* market closed and the position exactly at the threshold, sold.
C1_Witness ==
    /\ Checked
    /\ Snap.price > 0
    /\ Snap.has_position
    /\ Snap.position_pnl_pct = hard_stop_loss_pct
    /\ Snap.session = "closed"
    /\ Prop.proposed_action = "BUY"
    /\ Res.final_action = "SELL"

\* C2: a snapshot whose price is <= 0 gets the verdict denied, HOLD,
\* confidence 0, the single reason code MISSING_DATA with its single reason,
\* and nothing else: no parameters, no modification list.
C2_InvalidPriceForcesHold ==
    Checked /\ Snap.price <= 0
        => /\ ~Snap.has_valid_price
           /\ ~Res.allowed
           /\ Res.final_action = "HOLD"
           /\ Res.normalized_confidence = 0
           /\ Res.reason_codes = <<"MISSING_DATA">>
           /\ Res.reject_reasons = <<Text("Invalid price data", 0, 0)>>
           /\ Res.final_params = EmptyDict
           /\ Res.modifications = None

\* C2 witness: a SELL proposal on a priceless snapshot whose position is at
\* the hard stop, after the symbol's last trade, denied.
C2_Witness ==
    /\ Checked
    /\ Snap.price <= 0
    /\ AtHardStop(Snap)
    /\ HasLastTrade(Snap)
    /\ Prop.proposed_action = "SELL"
    /\ ~Res.allowed

\* C3, as claimed: every verdict carries a stop_loss_pct inside
\* [stop_loss_min, stop_loss_max] and a take_profit_pct inside
\* [take_profit_min, take_profit_max].
C3_EveryVerdictInBand ==
    Checked
        => /\ "stop_loss_pct" \in DOMAIN Res.final_params
           /\ "take_profit_pct" \in DOMAIN Res.final_params
           /\ InBand(Res.final_params, "stop_loss_pct",
                     stop_loss_min, stop_loss_max)
           /\ InBand(Res.final_params, "take_profit_pct",
                     take_profit_min, take_profit_max)

\* C3, amended: on the normal return (valid price, hard stop not fired) a
\* stop_loss_pct or take_profit_pct that the proposal gave is in final_params
\* inside its band, and one that the proposal omitted stays absent; the
\* invalid-price return has no parameters and the hard-stop return has
\* stop_loss_pct = hard_stop_loss_pct and take_profit_pct = 0.
C3_ClampBounds ==
    Checked
        => IF Snap.price <= 0 THEN Res.final_params = EmptyDict
           ELSE IF AtHardStop(Snap)
           THEN /\ Res.final_params.stop_loss_pct = hard_stop_loss_pct
                /\ Res.final_params.take_profit_pct = 0
           ELSE /\ \A key \in {"stop_loss_pct", "take_profit_pct"} :
                       key \in DOMAIN Res.final_params
                           <=> key \in DOMAIN Prop.params
                /\ InBand(Res.final_params, "stop_loss_pct",
                          stop_loss_min, stop_loss_max)
                /\ InBand(Res.final_params, "take_profit_pct",
                          take_profit_min, take_profit_max)

\* C3 witness: a proposal with the stop loss above and the take profit below
\* its band, checked on the normal return and corrected to the band edges.
C3_Witness ==
    /\ Checked
    /\ Snap.price > 0
    /\ ~AtHardStop(Snap)
    /\ Prop.params = Params(50, 60, 30)
    /\ Res.final_params.stop_loss_pct = stop_loss_max
    /\ Res.final_params.take_profit_pct = take_profit_min

C6_CooldownOnEverySnapshot ==
    Checked /\ Prop.proposed_action = "BUY" /\ HasLastTrade(Snap)
        => IF Elapsed(Snap, fw_clock) < cooldown_minutes
           THEN /\ ~Res.allowed
                /\ Res.final_action = "HOLD"
                /\ HasCode(Res, "COOLDOWN_ACTIVE")
           ELSE ~HasCode(Res, "COOLDOWN_ACTIVE")

\* C6, amended: the same on a snapshot with a valid price and no position at
\* the hard stop (the two early returns never reach the cooldown check).
C6_CooldownEnforcement ==
    (/\ Checked
     /\ Prop.proposed_action = "BUY"
     /\ HasLastTrade(Snap)
     /\ Snap.price > 0
     /\ ~AtHardStop(Snap))
        => IF Elapsed(Snap, fw_clock) < cooldown_minutes
           THEN /\ ~Res.allowed
                /\ Res.final_action = "HOLD"
                /\ HasCode(Res, "COOLDOWN_ACTIVE")
           ELSE ~HasCode(Res, "COOLDOWN_ACTIVE")

\* C6 witness: a BUY that passes every other check, denied for the cooldown
\* alone one minute before its end and allowed on the second check at or
\* after its end.
C6_Witness ==
    /\ fw_result2 # None
    /\ Prop.proposed_action = "BUY"
    /\ HasLastTrade(Snap)
    /\ Elapsed(Snap, fw_clock) = cooldown_minutes - 1
    /\ Res.reason_codes = <<"COOLDOWN_ACTIVE">>
    /\ ~Res.allowed
    /\ fw_result2[1].allowed
    /\ fw_result2[1].final_action = "BUY"

\* C7: a BUY proposal that fails no check is allowed as BUY with its
\* parameters unchanged and no reject reason.
C7_CleanBuyAllowed ==
    (/\ Checked
     /\ PassesOtherChecks(Prop, Snap, fw_clock)
     /\ InBand(Prop.params, "stop_loss_pct", stop_loss_min, stop_loss_max)
     /\ InBand(Prop.params, "take_profit_pct", take_profit_min,
               take_profit_max))
        => /\ Res.allowed
           /\ Res.final_action = "BUY"
           /\ Res.final_params = Prop.params
           /\ Res.reject_reasons = <<>>

\* C7 witness: scenario 1 (5 of 6 rules, confidence 78, size 25, stop loss
\* 4.0, take profit 12.0) without counter evidence, exactly cooldown_minutes
\* after the last trade, allowed.
C7_Witness ==
    /\ Checked
    /\ PassesOtherChecks(Prop, Snap, fw_clock)
    /\ Snap.buy_rule_count = 5
    /\ Prop.confidence = 78
    /\ Prop.params = Params(25, 40, 120)
    /\ Prop.counter_evidence = <<>>
    /\ HasLastTrade(Snap)
    /\ Elapsed(Snap, fw_clock) = cooldown_minutes
    /\ Res.allowed

\* C8: a BUY proposal on a valid-price snapshot without hard stop, with too
\* few buy rules and too little confidence, is denied as HOLD and carries
\* both INSUFFICIENT_BUY_SIGNALS and LOW_CONFIDENCE.
C8_BothEntryCodes ==
    (/\ Checked
     /\ Prop.proposed_action = "BUY"
     /\ Snap.price > 0
     /\ ~AtHardStop(Snap)
     /\ Snap.buy_rule_count < min_buy_rule_count
     /\ Prop.confidence < min_confidence_buy)
        => /\ ~Res.allowed
           /\ Res.final_action = "HOLD"
           /\ HasCode(Res, "INSUFFICIENT_BUY_SIGNALS")
           /\ HasCode(Res, "LOW_CONFIDENCE")

\* C8 witness: scenario 2 (2 of 6 rules, confidence 60) in the regular
\* session, denied with exactly the two codes.
C8_Witness ==
    /\ Checked
    /\ Prop.proposed_action = "BUY"
    /\ Snap.price > 0
    /\ ~AtHardStop(Snap)
    /\ Snap.buy_rule_count = 2
    /\ Prop.confidence = 60
    /\ Res.reason_codes = <<"INSUFFICIENT_BUY_SIGNALS", "LOW_CONFIDENCE">>

\* C9: when the hard stop fires on a valid-price snapshot the verdict is
\* exactly: allowed, SELL, reason codes [HARD_STOP_LOSS], no reject reason,
\* position_size_pct 100, confidence 100.
C9_HardStopVerdict ==
    Checked /\ Snap.price > 0 /\ AtHardStop(Snap)
        => /\ Res.allowed
           /\ Res.final_action = "SELL"
           /\ Res.reason_codes = <<"HARD_STOP_LOSS">>
           /\ Res.reject_reasons = <<>>
           /\ Res.final_params.position_size_pct = 100
           /\ Res.normalized_confidence = 100

\* C9 witness: a HOLD proposal on a position at the hard stop, with the
\* market closed, the liquidity score too low, the day P/L at the circuit
\* breaker and a trade 34 minutes earlier... each of which would add a
\* reason on the normal return.
C9_Witness ==
    /\ Checked
    /\ Prop.proposed_action = "HOLD"
    /\ Snap.price > 0
    /\ AtHardStop(Snap)
    /\ Snap.session = "closed"
    /\ Snap.liquidity_score = Some(40)
    /\ Snap.day_pnl_pct = day_circuit_breaker_pct
    /\ HasLastTrade(Snap)
    /\ Res.final_action = "SELL"

NearestEdge(lo, hi, x) == IF x < lo THEN lo ELSE hi

Occurrences(seq, entry) ==
    Cardinality({i \in 1 .. Len(seq) : seq[i] = entry})

\* C10: a BUY proposal that passes every other check and has both its stop
\* loss and its take profit out of band is allowed, with both values at the
\* nearest band edge, one modification per corrected value and
\* PARAMS_CLAMPED among the reason codes.
C10_ClampDoesNotDeny ==
    (/\ Checked
     /\ PassesOtherChecks(Prop, Snap, fw_clock)
     /\ OutOfBand(Prop.params, "stop_loss_pct", stop_loss_min, stop_loss_max)
     /\ OutOfBand(Prop.params, "take_profit_pct", take_profit_min,
                  take_profit_max))
        => LET sl == Prop.params.stop_loss_pct
               tp == Prop.params.take_profit_pct
               sl_edge == NearestEdge(stop_loss_min, stop_loss_max, sl)
               tp_edge == NearestEdge(take_profit_min, take_profit_max, tp)
               mods == Res.modifications[1]
           IN /\ Res.allowed
              /\ Res.final_action = "BUY"
              /\ Res.final_params.stop_loss_pct = sl_edge
              /\ Res.final_params.take_profit_pct = tp_edge
              /\ Occurrences(mods, Text("Stop loss clamped", sl, sl_edge)) = 1
              /\ Occurrences(mods, Text("Take profit clamped", tp, tp_edge))
                     = 1
              /\ Cardinality({i \in 1 .. Len(mods) :
                     mods[i].msg \in {"Stop loss clamped",
                                      "Take profit clamped"}}) = 2
              /\ HasCode(Res, "PARAMS_CLAMPED")

\* C10 witness: scenario 4 (stop loss 2.0 below the band, take profit 20.0
\* above it), allowed with 3.0 and 15.0.
C10_Witness ==
    /\ Checked
    /\ PassesOtherChecks(Prop, Snap, fw_clock)
    /\ Prop.params = Params(25, 20, 200)
    /\ Res.allowed
    /\ Res.final_params = Params(25, stop_loss_min, take_profit_max)

\* the session check lets this snapshot through
SessionOpen(snapshot) ==
    snapshot.session = "regular"
    \/ (enable_extended_hours /\ snapshot.session # "closed")

\* neither the spread nor the liquidity score is outside its limit
LiquidityOk(snapshot) ==
    /\ snapshot.spread = None \/ snapshot.spread[1] <= max_spread
    /\ snapshot.liquidity_score = None
          \/ snapshot.liquidity_score[1] >= min_liquidity_score

\* the symbol's last trade is less than min_trade_interval_minutes old
InsideMinInterval(snapshot, now) ==
    HasLastTrade(snapshot)
    /\ Elapsed(snapshot, now) < min_trade_interval_minutes

\* C13, as claimed: a SELL proposal that fails no other check (valid price,
\* session open, outside the minimum trade interval) is allowed as SELL
\* whatever the spread and the liquidity score are.
C13_SpreadNeverBlocksSell ==
    (/\ Checked
     /\ Prop.proposed_action = "SELL"
     /\ Snap.price > 0
     /\ SessionOpen(Snap)
     /\ ~InsideMinInterval(Snap, fw_clock))
        => Res.allowed /\ Res.final_action = "SELL"

\* C14, as claimed: inside the minimum trade interval a SELL proposal that
\* fails no other check (valid price, session open, spread and liquidity
\* inside their limits) is allowed as SELL, and a BUY or HOLD proposal is
\* denied unless the hard stop fires.
C14_IntervalNeverBlocksSell ==
    (/\ Checked
     /\ Snap.price > 0
     /\ InsideMinInterval(Snap, fw_clock))
        => IF Prop.proposed_action = "SELL"
           THEN SessionOpen(Snap) /\ LiquidityOk(Snap)
                    => Res.allowed /\ Res.final_action = "SELL"
           ELSE ~AtHardStop(Snap) => ~Res.allowed

\* C15, as claimed: every verdict with allowed = false has at least one
\* reject reason and at least one reason code, for every proposal action.
C15_EveryDenialHasReason ==
    Checked /\ ~Res.allowed
        => Len(Res.reject_reasons) >= 1 /\ Len(Res.reason_codes) >= 1

\* C15, amended: every verdict with allowed = false on a BUY or SELL
\* proposal has at least one reject reason and at least one reason code; a
\* denied proposal of another action that no check rejected has no reject
\* reason and no reason code other than PARAMS_CLAMPED.
C15_DeniedTradeHasReason ==
    Checked /\ ~Res.allowed
        => IF Prop.proposed_action \in {"BUY", "SELL"}
           THEN Len(Res.reject_reasons) >= 1 /\ Len(Res.reason_codes) >= 1
           ELSE Res.reject_reasons = <<>>
                    => \A i \in 1 .. Len(Res.reason_codes) :
                           Res.reason_codes[i] = "PARAMS_CLAMPED"

\* C15 witness: a BUY that the daily circuit breaker alone denies.
C15_Witness ==
    /\ Checked
    /\ Prop.proposed_action = "BUY"
    /\ ~Res.allowed
    /\ Snap.day_pnl_pct = day_circuit_breaker_pct
    /\ Res.reason_codes = <<"DAY_CIRCUIT_BREAKER">>
    /\ Len(Res.reject_reasons) = 1

-----------------------------------------------------------------------------
(* Properties of the session mapping, under SessSpec *)

\* the session the specification assigns to a time of day, in minutes
ClaimedSession(time_minutes) ==
    IF 4 * 60 + 30 <= time_minutes /\ time_minutes < 9 * 60 + 30
    THEN "premarket"
    ELSE IF 9 * 60 + 30 <= time_minutes /\ time_minutes < 16 * 60
    THEN "regular"
    ELSE IF 16 * 60 <= time_minutes /\ time_minutes < 20 * 60
    THEN "afterhours"
    ELSE "closed"

\* C17, as claimed: the snapshot built at a time of day t carries the
\* session premarket for 04:30 <= t < 09:30, regular for 09:30 <= t < 16:00,
\* afterhours for 16:00 <= t < 20:00 and closed for every other t.
C17_SessionMapping ==
    fw_snapshot # None => Snap.session = ClaimedSession(fw_clock)

-----------------------------------------------------------------------------
(* Properties of TradeStateMachine, under SmSpec *)

\* C5: can_close_position is false for every symbol before any transition;
\* it becomes true only through a BUY transition with has_position = true
\* taken from WAIT or CANDIDATE, which returns ENTERED; and it is false
\* right after every SELL transition.
C5_CanCloseLegality ==
    /\ \A s \in Symbols : ~can_close_position(sm_states, s)
    /\ [][\A s \in Symbols :
            /\ ~can_close_position(sm_states, s)
               /\ can_close_position(sm_states', s)
                   => sm_call' = Some([symbol |-> s, action |-> "BUY",
                                       has_position |-> TRUE,
                                       from |-> get_state(sm_states, s),
                                       returned |-> "ENTERED"])
                      /\ get_state(sm_states, s) \in {"WAIT", "CANDIDATE"}
            /\ sm_call' # None
               /\ sm_call'[1].symbol = s
               /\ sm_call'[1].action = "SELL"
                   => ~can_close_position(sm_states', s)]_vars

\* C5 witness: a SELL transition found the symbol in MANAGING and left it
\* in COOLDOWN while the other symbol is still open.
C5_Witness ==
    /\ sm_call # None
    /\ sm_call[1].symbol = "AAPL"
    /\ sm_call[1].action = "SELL"
    /\ sm_call[1].from = "MANAGING"
    /\ ~can_close_position(sm_states, "AAPL")
    /\ can_close_position(sm_states, "MSFT")

-----------------------------------------------------------------------------
(* Properties of the trading loop, under PipeSpec *)

\* the execute_ai_strategy_v2 call that is running or returned last
Cycle == mg_cycle[1]

\* the call got as far as the firewall
CycleChecked == mg_cycle # None /\ Cycle.checked # None

\* allowed means BUY or SELL without a reject reason, denied means HOLD
VerdictShape(result) ==
    /\ result.allowed
           => result.final_action \in {"BUY", "SELL"}
              /\ result.reject_reasons = <<>>
    /\ ~result.allowed => result.final_action = "HOLD"

UnknownAction(action) == action \notin {"BUY", "SELL", "HOLD"}

\* C11 as stated: the verdict of check and the verdict the state-machine gate
\* leaves are allowed only with BUY or SELL and no reject reason, and are
\* HOLD when denied; a proposal whose action is none of BUY, SELL, HOLD is
\* never allowed.
C11_UnknownActionNeverAllowed ==
    CycleChecked
        => /\ VerdictShape(Cycle.checked[1])
           /\ VerdictShape(Cycle.gated[1])
           /\ UnknownAction(Cycle.proposed_action[1])
                  => ~Cycle.checked[1].allowed /\ ~Cycle.gated[1].allowed

\* C11 (amended): the verdict of check and the verdict the state-machine gate
\* leaves are allowed only with BUY or SELL and no reject reason, and are
\* HOLD when denied; a proposal whose action is none of BUY, SELL, HOLD is
\* allowed only by the hard stop loss, as a SELL.
C11_VerdictShape ==
    CycleChecked
        => /\ VerdictShape(Cycle.checked[1])
           /\ VerdictShape(Cycle.gated[1])
           /\ (UnknownAction(Cycle.proposed_action[1])
               /\ Cycle.stage = "logged"
               /\ ~AtHardStop(Cycle.snapshot[1]))
                  => ~Cycle.checked[1].allowed /\ ~Cycle.gated[1].allowed
           /\ (UnknownAction(Cycle.proposed_action[1])
               /\ Cycle.checked[1].allowed)
                  => /\ Cycle.checked[1].final_action = "SELL"
                     /\ HasCode(Cycle.checked[1], "HARD_STOP_LOSS")

\* the gate blocked a verdict the firewall had allowed
C11_Witness ==
    /\ CycleChecked
    /\ Cycle.checked[1].allowed
    /\ ~Cycle.gated[1].allowed
    /\ HasCode(Cycle.gated[1], "STATE_MACHINE_BLOCK")
    /\ Cycle.gated[1].final_action = "HOLD"

\* the order came from an advisory proposal: the v2 cycle or the manual
\* button, not the stop-loss/take-profit sweep
AdvisoryOrder(order) == order.via \in {"v2", "v1"}

\* the caller held an allowed verdict with the order's action
FollowsAllowedVerdict(order) ==
    /\ order.verdict # None
    /\ order.verdict[1].allowed
    /\ order.verdict[1].final_action = order.side

\* C12: every buy or sell order the strategy manager submits for an advisory
\* proposal, through execute_ai_strategy_v2 or execute_ai_strategy with
\* auto_trade on, follows an allowed firewall verdict of the same cycle with
\* that action for that symbol.
C12_OrderFollowsAllowedVerdict ==
    \A i \in 1 .. Len(br_orders) :
        AdvisoryOrder(br_orders[i]) => FollowsAllowedVerdict(br_orders[i])

\* a SELL the sweep or the v2 cycle executed successfully
ExecutedSell(order) ==
    order.side = "SELL" /\ order.success /\ order.via \in {"sweep", "v2"}

\* a BUY the v2 cycle submitted to the broker
SubmittedBuy(order) == order.side = "BUY" /\ order.via = "v2"

\* C16: over the iterations of the monitor loop, once a SELL of a symbol was
\* executed successfully at time T by the sweep or by execute_ai_strategy_v2,
\* no BUY of that symbol is submitted before T + cooldown_minutes.
C16_NoBuyInsideCooldown ==
    \A i, j \in 1 .. Len(br_orders) :
        (/\ i < j
         /\ ExecutedSell(br_orders[i])
         /\ SubmittedBuy(br_orders[j])
         /\ br_orders[j].symbol = br_orders[i].symbol)
            => br_orders[j].time >= br_orders[i].time + cooldown_minutes

-----------------------------------------------------------------------------
(* Properties of the audit log, under AuditSpec *)

\* the step called log_decision or log_rejection
LogCalled == log_calls' = log_calls + 1

\* the step added exactly one entry at the end, the one the call built
OneEntryAdded ==
    /\ Len(audit_log') = Len(audit_log) + 1
    /\ audit_log'[Len(audit_log')].entry_id.seq = log_calls

\* C18: the audit log is append-only. Over log_decision, log_rejection,
\* query_logs, get_statistics and the cycles of the loop, the entries present
\* before a step are an unchanged prefix of the entries after it; a step
\* without a logging call leaves the log as it is, and a logging call whose
\* write succeeds adds exactly one entry at the end.
C18_AppendOnly ==
    [][/\ Len(audit_log') >= Len(audit_log)
       /\ SubSeq(audit_log', 1, Len(audit_log)) = audit_log
       /\ ~LogCalled => audit_log' = audit_log
       /\ LogCalled => audit_log' = audit_log \/ OneEntryAdded]_vars

\* a log of two decisions and a rejection that a reader has queried
C18_Witness ==
    /\ Len(audit_log) >= 3
    /\ Rejections = 1
    /\ last_query # None
    /\ "logs" \in DOMAIN last_query[1]
    /\ Len(last_query[1].logs) >= 1

-----------------------------------------------------------------------------
(* Properties of the audit trail of a cycle, under PipeSpec *)

\* the call has returned after it built a snapshot
CycleReturnedWithSnapshot ==
    /\ mg_cycle # None
    /\ Cycle.stage = "returned"
    /\ Cycle.snapshot_built

\* the audit log holds the entry of the decision behind the order
EntryBehind(order) ==
    \E k \in 1 .. Len(audit_log) :
        /\ audit_log[k].symbol = order.symbol
        /\ audit_log[k].timestamp.time = order.time
        /\ "order_request" \in DOMAIN audit_log[k]
        /\ audit_log[k].order_request # None
        /\ audit_log[k].order_request[1].action = order.side

\* C19: every execute_ai_strategy_v2 call that built a snapshot has appended
\* exactly one audit entry by the time it returns, whatever the advisory call
\* and the firewall said, and the entry of an order is in the log when the
\* order is submitted.
C19_OneEntryPerCycle ==
    /\ CycleReturnedWithSnapshot
           => /\ Len(audit_log) = Cycle.log_before + 1
              /\ Cycle.entry_id # None
              /\ audit_log[Len(audit_log)].entry_id = Cycle.entry_id[1]
    /\ \A i \in 1 .. Len(br_orders) :
           br_orders[i].via = "v2" => EntryBehind(br_orders[i])

\* an order of the v2 cycle that the broker filled
FilledOrder(order) == order.via = "v2" /\ order.success

\* the audit log holds an entry with the fill of the order
FillRecorded(order) ==
    \E k \in 1 .. Len(audit_log) :
        /\ audit_log[k].symbol = order.symbol
        /\ "order_fill" \in DOMAIN audit_log[k]
        /\ audit_log[k].order_fill # None

\* C20: when an order submitted by execute_ai_strategy_v2 succeeds, its fill
\* is recorded in the audit log as a new entry; stated for the end of the
\* run: once the loop has run its last iteration, every order that was
\* logged and filled in an earlier iteration has its fill in the log.
C20_FillRecorded ==
    LoopDone
        => \A i \in 1 .. Len(br_orders) :
               (/\ FilledOrder(br_orders[i])
                /\ EntryBehind(br_orders[i])
                /\ br_orders[i].time + check_interval <= sm_clock)
                   => FillRecorded(br_orders[i])

-----------------------------------------------------------------------------
(* Properties of the state machine's gate in the cycle, under PipeSpec *)

\* the step appends an order to the broker's orders
OrderSubmitted == Len(br_orders') = Len(br_orders) + 1

\* the order the step appended
SubmittedOrder == br_orders'[Len(br_orders')]

\* C30: execute_ai_strategy_v2 submits a SELL order only when
\* can_close_position(symbol) is true, that is when the symbol's state is
\* ENTERED or MANAGING at the moment of the order.
C30_SellOnlyWhenCanClose ==
    [][(OrderSubmitted /\ SubmittedOrder.via = "v2"
                       /\ SubmittedOrder.side = "SELL")
         => can_close_position(sm_states, SubmittedOrder.symbol)]_vars

\* C24: in execute_ai_strategy_v2 the state machine's entries and the risk
\* state change only in a step whose order the broker reported successful;
\* a step with no order, or with a failed order, leaves both as they were.
C24_StateFollowsSuccess ==
    [][(~(OrderSubmitted /\ SubmittedOrder.via = "v2"
                         /\ SubmittedOrder.success))
         => (sm_states' = sm_states /\ mg_risk_state' = mg_risk_state)]_vars

-----------------------------------------------------------------------------
(* Properties of the per-symbol records in the cycle, under PipeSpec *)

\* the entry of a key in a dict: None when the key is absent
EntryOf(d, k) == IF k \in DOMAIN d THEN Some(d[k]) ELSE None

\* the step submits a v2 order for a symbol other than b
TradesOtherThan(b) ==
    /\ OrderSubmitted
    /\ SubmittedOrder.via = "v2"
    /\ SubmittedOrder.symbol # b

\* C23: a cycle that trades symbol A leaves the state-machine entry of
\* every other symbol B and B's entry of last_trade_time_by_symbol as they
\* were.
C23_OtherSymbolsUntouched ==
    [][\A b \in Symbols :
         TradesOtherThan(b)
           => /\ EntryOf(sm_states', b) = EntryOf(sm_states, b)
              /\ EntryOf(mg_risk_state'.last_trade_time_by_symbol, b)
                   = EntryOf(mg_risk_state.last_trade_time_by_symbol, b)]_vars

-----------------------------------------------------------------------------
(* Properties of TradeStateMachine.transition, under SmSpec *)

\* the request of a call is illegal in the state the call found
IllegalRequest(call) ==
    \/ call.action = "SELL" /\ call.from \in {"WAIT", "CANDIDATE", "COOLDOWN"}
    \/ call.action = "BUY" /\ call.from \in {"ENTERED", "MANAGING"}

\* the step is a call of transition
TransitionCalled == sm_clock' = sm_clock /\ sm_call' # None

\* C25: transition answers an illegal request (SELL in WAIT, CANDIDATE or
\* COOLDOWN, BUY in ENTERED or MANAGING) by returning the state it found and
\* leaving state, entered_at, exited_at and consecutive_holds of the symbol
\* unchanged; every call, legal or not, sets last_action and
\* last_action_time.
C25_IllegalRequestIsNoOp ==
    [][TransitionCalled =>
         LET call == sm_call'[1]
             old == Get(sm_states, call.symbol, NewSymbolState)
             new == sm_states'[call.symbol]
         IN /\ new.last_action = Some(call.action)
            /\ new.last_action_time = Some(sm_clock)
            /\ IllegalRequest(call)
                 => /\ call.returned = call.from
                    /\ new.state = old.state
                    /\ new.entered_at = old.entered_at
                    /\ new.exited_at = old.exited_at
                    /\ new.consecutive_holds = old.consecutive_holds]_vars

\* C25 witness: a SELL found AAPL in COOLDOWN, a tick after the exit, and
\* only the last action and its time were written; MSFT was answered a BUY
\* in ENTERED or MANAGING.
C25_Witness ==
    /\ sm_call # None
    /\ sm_call[1].symbol = "AAPL"
    /\ sm_call[1].action = "SELL"
    /\ sm_call[1].from = "COOLDOWN"
    /\ sm_states["AAPL"].state = "COOLDOWN"
    /\ sm_states["AAPL"].last_action_time = Some(sm_clock)
    /\ sm_states["AAPL"].exited_at # Some(sm_clock)
    /\ "MSFT" \in DOMAIN sm_states
    /\ sm_states["MSFT"].state \in {"ENTERED", "MANAGING"}
    /\ sm_states["MSFT"].last_action = Some("BUY")
    /\ sm_states["MSFT"].entered_at # sm_states["MSFT"].last_action_time

-----------------------------------------------------------------------------
(* Properties of the snapshot of a cycle, under PipeSpec *)

\* C26: what a snapshot holds never changes after from_market_data
\* returned it: the last_trade_time_by_symbol the snapshot of the cycle
\* holds is the one it was built with, also after the cycle's trade updated
\* the risk state.
C26_SnapshotNeverChanges ==
    (mg_cycle # None /\ Cycle.last_trade_built # None)
        => Cycle.last_trade_held = Cycle.last_trade_built

\* the optional indicators of market_data
OptionalIndicators ==
    {"ma5", "ma20", "ma60", "macd", "macd_signal", "rsi", "bb_upper",
     "bb_middle", "bb_lower", "volume_ratio", "spread", "liquidity_score"}

\* the snapshot field that carries an indicator: macd_dea=macd_signal
SnapshotFieldOf(k) == IF k = "macd_signal" THEN "macd_dea" ELSE k

\* the cycle holds the snapshot from_market_data built next to the market
\* data it was built from
CycleHoldsSnapshot == mg_cycle # None /\ Cycle.stage = "logged"

\* C29: every optional indicator market_data does not supply is None in
\* the snapshot and named in missing_fields.
C29_MissingIndicatorsAreNone ==
    CycleHoldsSnapshot =>
        \A k \in OptionalIndicators :
            MdGet(Cycle.market_data[1], k) = None
                => /\ Cycle.snapshot[1][SnapshotFieldOf(k)] = None
                   /\ \E i \in DOMAIN Cycle.snapshot[1].missing_fields :
                         Cycle.snapshot[1].missing_fields[i] = k

-----------------------------------------------------------------------------
(* The parser of the advisory response, on response texts of every shape *)

\* an object proposing BUY, the same without one of the required fields,
\* and with a confidence int() rejects
ObjectLacking(k) == [x \in (DOMAIN LlmData("BUY")) \ {k} |-> LlmData("BUY")[x]]

JsonValues ==
    {JsonInvalid, JsonNumber, JsonArray({}),
     JsonArray({"proposed_action", "confidence"}),
     JsonObject(LlmData("BUY")), JsonObject(LlmData("SELL")),
     JsonObject(ObjectLacking("confidence")),
     JsonObject(ObjectLacking("proposed_action")),
     JsonObject([LlmData("BUY") EXCEPT !.confidence = None]),
     JsonObject(EmptyDict)}

\* what the braces of a fenced text may hold
BraceValues == {None, Some(JsonInvalid), Some(JsonObject(LlmData("BUY")))}

\* texts with a ```json fence, with a plain fence, with braces only, and
\* without any of them
ResponseTexts ==
    {ResponseText(Some(v), Some(JsonInvalid), b, JsonInvalid) :
        v \in JsonValues, b \in BraceValues}
    \cup {ResponseText(None, Some(v), b, JsonInvalid) :
            v \in JsonValues, b \in BraceValues}
    \cup {ResponseText(None, None, Some(v), JsonInvalid) : v \in JsonValues}
    \cup {ResponseText(None, None, None, v) :
            v \in {JsonInvalid, JsonNumber, JsonArray({})}}

ParseInit ==
    /\ FwIdle
    /\ SmIdle
    /\ PlIdle

\* analyze_and_decide_v2 hands the response of _call_deepseek and the
\* snapshot to _parse_proposal_v2
Parse ==
    /\ fw_pc = "snapshot"
    /\ \E response_text \in ResponseTexts :
          /\ ai_response' = Some(response_text)
          /\ fw_proposal' = Some(_parse_proposal_v2(response_text,
                                                    fw_snapshot[1]))
    /\ fw_pc' = "parsed"
    /\ UNCHANGED <<enable_extended_hours, fw_snapshot, fw_clock, fw_result,
                   fw_result2>>
    /\ UNCHANGED sm_vars
    /\ UNCHANGED <<mg_risk_state, mg_cycle, mg_other, br_positions, br_orders,
                   db_monitored, audit_log, log_calls, loop_pc, task_idx,
                   iterations, at_running, at_threads, last_query>>

ParseNext == BuildSnapshot \/ Parse

ParseSpec == ParseInit /\ [][ParseNext]_vars

-----------------------------------------------------------------------------
(* Properties of _parse_proposal_v2, under ParseSpec *)

\* a JSON object that contains proposed_action and confidence
IsProposalObject(data) ==
    /\ data.type = "object"
    /\ "proposed_action" \in DOMAIN data.fields
    /\ "confidence" \in DOMAIN data.fields

\* none of the three extraction variants yields such an object
NoVariantYields(response_text) ==
    /\ response_text.json_fence # None
         => ~IsProposalObject(response_text.json_fence[1])
    /\ response_text.fence # None
         => ~IsProposalObject(response_text.fence[1])
    /\ response_text.braces # None
         => ~IsProposalObject(response_text.braces[1])

Parsed == fw_pc = "parsed"

\* C27: _parse_proposal_v2 returns a proposal for every response text, and
\* for a text from which no extraction variant yields a JSON object with
\* proposed_action and confidence the proposal is HOLD, confidence 0, with
\* the diagnostic notes of the failed parse.
C27_ParseFallsBackToHold ==
    Parsed =>
        /\ fw_proposal # None
        /\ NoVariantYields(ai_response[1])
             => /\ fw_proposal[1].proposed_action = "HOLD"
                /\ fw_proposal[1].confidence = 0
                /\ fw_proposal[1] = ParseFailedProposal(fw_snapshot[1])

\* C27 witness: the ```json fence holds an object proposing BUY without a
\* confidence, the text has nothing else to offer, and the parser returned
\* the conservative HOLD for a snapshot with no missing field.
C27_Witness ==
    /\ Parsed
    /\ ai_response[1].json_fence = Some(JsonObject(ObjectLacking("confidence")))
    /\ ai_response[1].braces = Some(JsonInvalid)
    /\ fw_snapshot[1].missing_fields = <<>>
    /\ fw_proposal[1].proposed_action = "HOLD"
    /\ fw_proposal[1].confidence = 0

-----------------------------------------------------------------------------
(* The readers of the audit log over a file with lines of every kind *)

\* at most MaxLines lines are in the file
MaxLines == 3

\* the verdict of a logged decision that allowed a BUY
AllowedBuy ==
    [allowed |-> TRUE, final_action |-> "BUY", reason_codes |-> <<>>,
     normalized_confidence |-> 78]

\* an entry without its timestamp
WithoutTimestamp(entry) == [k \in (DOMAIN entry) \ {"timestamp"} |-> entry[k]]

\* what line i of the file may hold: a decision for AAPL, a rejection for
\* MSFT, a line that is not JSON, a JSON value that is not an object, an
\* object for AAPL without a timestamp
LinesAt(i) ==
    {DecisionEntry(EntryId("AAPL", PipeStart, i), "AAPL",
                   [proposed_action |-> "BUY", confidence |-> 78],
                   AllowedBuy, None, None),
     RejectionEntry(EntryId("MSFT", PipeStart, i), "MSFT", "MISSING_DATA"),
     InvalidJsonLine,
     NonObjectLine,
     WithoutTimestamp(RejectionEntry(EntryId("AAPL", PipeStart, i), "AAPL",
                                     "MISSING_DATA"))}

StoredFiles ==
    UNION {{f \in [1 .. n -> UNION {LinesAt(i) : i \in 1 .. n}] :
               \A i \in 1 .. n : f[i] \in LinesAt(i)} : n \in 0 .. MaxLines}

\* the file as the readers find it
QueryInit ==
    /\ FwIdle
    /\ sm_states = EmptyDict
    /\ sm_clock = PipeStart
    /\ sm_call = None
    /\ mg_risk_state = [day_pnl_pct |-> 0, consecutive_losses |-> 0,
                        last_trade_time_by_symbol |-> EmptyDict]
    /\ mg_cycle = None
    /\ mg_other = None
    /\ ai_response = None
    /\ br_positions = EmptyDict
    /\ br_orders = <<>>
    /\ db_monitored = EmptyDict
    /\ audit_log \in StoredFiles
    /\ log_calls = 0
    /\ loop_pc = "stopped"
    /\ task_idx = 0
    /\ iterations = 0
    /\ at_running = FALSE
    /\ at_threads = <<>>
    /\ last_query = None

QueryNext == QueryLogs \/ GetStatistics

QuerySpec == QueryInit /\ [][QueryNext]_vars

-----------------------------------------------------------------------------
(* Properties of the readers of the audit log, under QuerySpec *)

\* C21: query_logs and get_statistics never fail because of a stored line;
\* whatever the lines of the file are, the call returns.
C21_ReadersNeverFail ==
    last_query # None => "raised" \notin DOMAIN last_query[1]

-----------------------------------------------------------------------------
(* Two threads in execute_ai_strategy_v2: the monitor loop and a second      *)
(* caller, a loop thread that start() left running after stop()              *)

\* the record of the second thread's call after log_decision
OtherLogged(symbol, market_data, snapshot, gate) ==
    [stage |-> "logged", symbol |-> symbol,
     gated |-> Some(gate.firewall_result),
     final_action |-> gate.final_action,
     can_execute |-> gate.can_execute,
     snapshot |-> Some(snapshot), market_data |-> Some(market_data),
     order_fill |-> None, had_position |-> snapshot.has_position]

\* the second thread, execute_ai_strategy_v2('AAPL', auto_trade=True), steps
\* 1 to 7, with the account and the market data at hand
OtherDecide ==
    /\ mg_other = None
    /\ loop_pc \in {"tasks", "execute"}
    /\ \E llm \in LlmOutcomes,
          snapshot \in {from_market_data("AAPL", MdStrong,
                                         get_all_positions(br_positions),
                                         mg_risk_state, sm_clock)} :
          \E llm_result \in {analyze_and_decide_v2(snapshot, llm)} :
             IF ~llm_result.success
             THEN /\ mg_other' = Some([stage |-> "returned",
                                       symbol |-> "AAPL", gated |-> None,
                                       final_action |-> "",
                                       can_execute |-> FALSE,
                                       snapshot |-> None,
                                       market_data |-> None,
                                       order_fill |-> None,
                                       had_position |->
                                           snapshot.has_position])
                  /\ UNCHANGED <<audit_log, log_calls>>
             ELSE \E firewall_result \in {check(llm_result.proposal[1],
                                                snapshot, sm_clock)} :
                     LET gate == StateMachineGate(firewall_result, sm_states,
                                                  "AAPL", snapshot)
                         order_request ==
                             IF gate.firewall_result.allowed
                             THEN Some([action |-> gate.final_action,
                                        symbol |-> "AAPL"])
                             ELSE None
                     IN /\ audit_log' =
                               WriteEntry(audit_log,
                                          DecisionEntry(
                                              EntryId("AAPL", sm_clock,
                                                      log_calls),
                                              "AAPL", llm_result.proposal[1],
                                              gate.firewall_result,
                                              order_request, None),
                                          TRUE)
                        /\ log_calls' = log_calls + 1
                        /\ mg_other' = Some(OtherLogged("AAPL", MdStrong,
                                                        snapshot, gate))
    /\ UNCHANGED <<mg_risk_state, mg_cycle, ai_response, br_positions,
                   br_orders, db_monitored, loop_pc, task_idx, iterations,
                   last_query>>
    /\ UNCHANGED <<at_running, at_threads>>
    /\ UNCHANGED fw_vars
    /\ UNCHANGED sm_vars

\* the second thread, steps 8 and 9
OtherExecute ==
    /\ mg_other # None
    /\ mg_other[1].stage = "logged"
    /\ \E account \in AccountSet, broker_ok \in BOOLEAN :
          LET c == mg_other[1]
              firewall_result == c.gated[1]
              snapshot == c.snapshot[1]
              execution_result ==
                  _execute_firewall_decision(br_positions, c.symbol,
                                             firewall_result, snapshot,
                                             c.market_data[1], account,
                                             broker_ok)
          IN IF firewall_result.allowed /\ c.can_execute
             THEN /\ br_positions' = HeldAfter(br_positions, c.symbol,
                                               execution_result, broker_ok)
                  /\ db_monitored' =
                         MonitoredAfter(db_monitored, c.symbol,
                                        FirewallDecision(
                                            firewall_result.final_params),
                                        execution_result)
                  /\ br_orders' = OrdersAfter(br_orders, c.symbol, "v2",
                                              sm_clock, execution_result,
                                              Some(VerdictOf(firewall_result)))
                  /\ sm_states' = transition(sm_states, c.symbol,
                                             c.final_action,
                                             snapshot.has_position, sm_clock)
                  /\ mg_risk_state' =
                         IF execution_result.success
                         THEN _update_risk_state(mg_risk_state, c.symbol,
                                                 sm_clock)
                         ELSE mg_risk_state
                  /\ mg_other' =
                         Some([c EXCEPT
                                 !.stage = "returned",
                                 !.snapshot = None,
                                 !.market_data = None,
                                 !.order_fill =
                                     IF execution_result.success
                                     THEN Some([quantity |->
                                                    execution_result.quantity,
                                                price |->
                                                    execution_result.price])
                                     ELSE None])
             ELSE /\ mg_other' = Some([c EXCEPT !.stage = "returned",
                                                !.snapshot = None,
                                                !.market_data = None])
                  /\ UNCHANGED <<br_positions, db_monitored, br_orders,
                                 sm_states, mg_risk_state>>
    /\ UNCHANGED <<mg_cycle, ai_response, audit_log, log_calls, loop_pc,
                   task_idx, iterations, last_query>>
    /\ UNCHANGED <<at_running, at_threads>>
    /\ UNCHANGED fw_vars
    /\ UNCHANGED <<sm_clock, sm_call>>

\* no position is held when the two threads start
RaceInit ==
    /\ PipeInit
    /\ br_positions = EmptyDict

RaceNext ==
    \/ Sweep
    \/ V2Decide
    \/ V2Execute
    \/ OtherDecide
    \/ OtherExecute

RaceSpec == RaceInit /\ [][RaceNext]_vars

-----------------------------------------------------------------------------
(* Properties of concurrent cycles, under RaceSpec *)

\* the call bought the symbol on a snapshot that showed no position
BoughtUnheld(c, symbol) ==
    /\ c.symbol = symbol
    /\ c.stage = "returned"
    /\ c.final_action = "BUY"
    /\ c.order_fill # None
    /\ ~c.had_position

\* C22: the cycles of one symbol are serialized, so two of them never both
\* pass the gate and both buy a symbol that neither of them saw held.
C22_NoDoubleBuy ==
    (mg_cycle # None /\ mg_other # None)
        => \A symbol \in Symbols :
              ~(BoughtUnheld(Cycle, symbol)
                /\ BoughtUnheld(mg_other[1], symbol))

-----------------------------------------------------------------------------
(* The monitor loop with the exceptions its handlers catch *)

\* _check_stop_loss_take_profit raises before it sold anything: its except
\* clause logs the error and the loop goes on to the tasks
SweepRaises ==
    /\ loop_pc = "sweep"
    /\ loop_pc' = "tasks"
    /\ task_idx' = 1
    /\ UNCHANGED <<mg_risk_state, mg_cycle, mg_other, ai_response,
                   br_positions, br_orders, db_monitored, audit_log,
                   log_calls, iterations, last_query>>
    /\ UNCHANGED <<at_running, at_threads>>
    /\ UNCHANGED fw_vars
    /\ UNCHANGED sm_vars

\* get_active_tasks raises: the outer except clause of
\* _execute_strategy_tasks logs the error and no task is evaluated
TaskListRaises ==
    /\ loop_pc = "tasks"
    /\ task_idx = 1
    /\ loop_pc' = "sleep"
    /\ task_idx' = Len(ActiveTasks) + 1
    /\ UNCHANGED <<mg_risk_state, mg_cycle, mg_other, ai_response,
                   br_positions, br_orders, db_monitored, audit_log,
                   log_calls, iterations, last_query>>
    /\ UNCHANGED <<at_running, at_threads>>
    /\ UNCHANGED fw_vars
    /\ UNCHANGED sm_vars

\* mutant: without the handler around the task, the exception reaches the
\* outer except clause and the remaining tasks are not evaluated
TaskRaisesEndsTasks ==
    /\ loop_pc \in {"tasks", "execute"}
    /\ task_idx \in 1 .. Len(ActiveTasks)
    /\ mg_cycle' =
           IF loop_pc = "tasks"
           THEN Some([ReturnedEarly(ActiveTasks[task_idx], FALSE)
                         EXCEPT !.stage = "raised"])
           ELSE Some([mg_cycle[1] EXCEPT !.stage = "raised",
                                         !.snapshot = None,
                                         !.market_data = None])
    /\ loop_pc' = "sleep"
    /\ task_idx' = Len(ActiveTasks) + 1
    /\ UNCHANGED <<mg_risk_state, mg_other, ai_response, br_positions,
                   br_orders, db_monitored, audit_log, log_calls, iterations,
                   last_query>>
    /\ UNCHANGED <<at_running, at_threads>>
    /\ UNCHANGED fw_vars
    /\ UNCHANGED sm_vars

\* the evaluation of the task at task_idx raises, before the snapshot or
\* between log_decision and the order: the except clause around the task
\* logs the error and the for loop goes on with the next task
TaskRaises ==
    /\ loop_pc \in {"tasks", "execute"}
    /\ task_idx \in 1 .. Len(ActiveTasks)
    /\ mg_cycle' =
           IF loop_pc = "tasks"
           THEN Some([ReturnedEarly(ActiveTasks[task_idx], FALSE)
                         EXCEPT !.stage = "raised"])
           ELSE Some([mg_cycle[1] EXCEPT !.stage = "raised",
                                         !.snapshot = None,
                                         !.market_data = None])
    /\ loop_pc' = AfterTask
    /\ task_idx' = task_idx + 1
    /\ UNCHANGED <<mg_risk_state, mg_other, ai_response, br_positions,
                   br_orders, db_monitored, audit_log, log_calls, iterations,
                   last_query>>
    /\ UNCHANGED <<at_running, at_threads>>
    /\ UNCHANGED fw_vars
    /\ UNCHANGED sm_vars

\* the loop starts with AAPL held at its stop loss
LoopInit ==
    /\ PipeInit
    /\ "AAPL" \in DOMAIN br_positions
    /\ br_positions["AAPL"].current_price = 9500

\* the iterations that Sleep can end before the clock reaches PipeLastClock
LastIteration == (PipeLastClock - PipeStart) \div check_interval

\* the loop is followed until its last iteration begins
LoopRunning == iterations < LastIteration

LoopNext ==
    \/ LoopRunning /\ Sweep
    \/ LoopRunning /\ SweepRaises
    \/ LoopRunning /\ TaskListRaises
    \/ LoopRunning /\ V2Decide
    \/ LoopRunning /\ V2Execute
    \/ LoopRunning /\ TaskRaises
    \/ LoopRunning /\ Sleep

\* the loop's thread keeps running: a step that is possible is taken
LoopSpec == LoopInit /\ [][LoopNext]_vars /\ WF_vars(LoopNext)

-----------------------------------------------------------------------------
(* Properties of the monitor loop, under LoopSpec *)

\* the last evaluation, of task k, raised
TaskRaisedAt(k) ==
    /\ mg_cycle # None
    /\ mg_cycle[1].stage = "raised"
    /\ mg_cycle[1].symbol = ActiveTasks[k]

\* task k is being evaluated or was the last one evaluated
TaskEvaluated(k) ==
    /\ mg_cycle # None
    /\ mg_cycle[1].symbol = ActiveTasks[k]

\* C28: whatever the sweep or the evaluation of a symbol raises, the loop
\* reaches its next iteration, and after an evaluation raised the next
\* active symbol is evaluated in the same iteration.
C28_LoopGoesOn ==
    /\ \A n \in 0 .. (LastIteration - 1) :
          (iterations = n) ~> (iterations = n + 1)
    /\ \A n \in 0 .. (LastIteration - 1) :
          \A k \in 1 .. (Len(ActiveTasks) - 1) :
             (TaskRaisedAt(k) /\ iterations = n)
                 ~> (TaskEvaluated(k + 1) /\ iterations = n)

\* C28 witness: in the first iteration the sweep has raised (AAPL is still
\* held at its stop loss and no order was submitted), the evaluation of
\* AAPL has raised and the for loop stands at MSFT.
C28_Witness ==
    /\ iterations = 0
    /\ loop_pc = "tasks"
    /\ task_idx = 2
    /\ TaskRaisedAt(1)
    /\ br_orders = <<>>
    /\ "AAPL" \in DOMAIN br_positions
-----------------------------------------------------------------------------
(* Properties of the state after an executed BUY, under PipeSpec *)

\* the step submits a BUY order through execute_ai_strategy_v2 that the
\* broker reports successful
BuyExecuted ==
    /\ OrderSubmitted
    /\ SubmittedOrder.via = "v2"
    /\ SubmittedOrder.side = "BUY"
    /\ SubmittedOrder.success

\* C31: after a cycle of execute_ai_strategy_v2 in which a BUY order for a
\* symbol is executed successfully, the symbol's state is ENTERED with
\* entered_at recorded, so that can_close_position is true and
\* can_open_position is false in the next cycle.
C31_BuyEnters ==
    [][BuyExecuted
         => /\ get_state(sm_states', SubmittedOrder.symbol) = "ENTERED"
            /\ sm_states'[SubmittedOrder.symbol].entered_at # None
            /\ can_close_position(sm_states', SubmittedOrder.symbol)
            /\ ~can_open_position(sm_states', SubmittedOrder.symbol)]_vars
-----------------------------------------------------------------------------
(* Properties of the cooldown of TradeStateMachine, under SmSpec *)

\* the call found the symbol in COOLDOWN with the window still running
InsideCooldown(old, now) ==
    /\ old.state = "COOLDOWN"
    /\ old.exited_at # None
    /\ now < old.exited_at[1] + cooldown_minutes

\* the call found the symbol in COOLDOWN with the window elapsed
CooldownElapsed(old, now) ==
    /\ old.state = "COOLDOWN"
    /\ old.exited_at # None
    /\ now >= old.exited_at[1] + cooldown_minutes

\* C32: a SELL transition from ENTERED or MANAGING at time T records
\* exited_at = T and leaves the symbol in COOLDOWN; EXITED is never returned
\* nor observable; every call before T + cooldown_minutes leaves the state
\* COOLDOWN with can_open_position false; a BUY at or after
\* T + cooldown_minutes moves to CANDIDATE and a HOLD at or after it to WAIT.
C32_CooldownWindow ==
    [][TransitionCalled =>
         LET call == sm_call'[1]
             old == Get(sm_states, call.symbol, NewSymbolState)
             new == sm_states'[call.symbol]
         IN /\ (call.action = "SELL" /\ call.from \in {"ENTERED", "MANAGING"})
                 => /\ new.state = "COOLDOWN"
                    /\ new.exited_at = Some(sm_clock)
                    /\ call.returned = "COOLDOWN"
            /\ call.returned # "EXITED"
            /\ \A symbol \in Symbols : get_state(sm_states', symbol) # "EXITED"
            /\ new.state = "COOLDOWN" => new.exited_at # None
            /\ InsideCooldown(old, sm_clock)
                 => /\ new.state = "COOLDOWN"
                    /\ new.exited_at = old.exited_at
                    /\ call.returned = "COOLDOWN"
                    /\ ~can_open_position(sm_states', call.symbol)
            /\ (CooldownElapsed(old, sm_clock) /\ call.action = "BUY")
                 => new.state = "CANDIDATE" /\ call.returned = "CANDIDATE"
            /\ (CooldownElapsed(old, sm_clock) /\ call.action = "HOLD")
                 => new.state = "WAIT" /\ call.returned = "WAIT"]_vars

\* C32 witness: AAPL left its position exactly cooldown_minutes ago and a BUY
\* has moved it from COOLDOWN to CANDIDATE; MSFT, sold a tick ago, was
\* answered a HOLD and is still in COOLDOWN.
C32_Witness ==
    /\ sm_call # None
    /\ sm_call[1].symbol = "MSFT"
    /\ sm_call[1].action = "HOLD"
    /\ sm_call[1].from = "COOLDOWN"
    /\ sm_states["MSFT"].state = "COOLDOWN"
    /\ sm_states["MSFT"].exited_at = Some(sm_clock - TickMinutes)
    /\ "AAPL" \in DOMAIN sm_states
    /\ sm_states["AAPL"].state = "CANDIDATE"
    /\ sm_states["AAPL"].last_action = Some("BUY")
    /\ sm_states["AAPL"].last_action_time = Some(sm_clock)
    /\ sm_states["AAPL"].exited_at = Some(sm_clock - cooldown_minutes)
-----------------------------------------------------------------------------
(* Properties of the decay of a candidate, under SmSpec *)

\* the call moved the symbol into CANDIDATE from another state
EntersCandidate(old, new) ==
    old.state # "CANDIDATE" /\ new.state = "CANDIDATE"

\* the call was a HOLD that moved the symbol from CANDIDATE to WAIT
CandidateDecays(call, old, new) ==
    /\ call.action = "HOLD"
    /\ old.state = "CANDIDATE"
    /\ new.state = "WAIT"

\* C33: the counter of consecutive holds is 0 whenever a symbol enters
\* CANDIDATE, and a HOLD moves a symbol from CANDIDATE to WAIT only when the
\* call before it, for that symbol, was a HOLD taken in CANDIDATE too: HOLDs
\* recorded before the symbol became CANDIDATE and HOLDs separated by a BUY
\* do not count towards the three.
C33_ThreeHoldsInCandidate ==
    [][TransitionCalled =>
         LET call == sm_call'[1]
             old == Get(sm_states, call.symbol, NewSymbolState)
             new == sm_states'[call.symbol]
         IN /\ EntersCandidate(old, new) => new.consecutive_holds = 0
            /\ CandidateDecays(call, old, new)
                 => old.last_action = Some("HOLD")]_vars
-----------------------------------------------------------------------------
(* The monitor loop over a symbol that was sold before, with the loop's    *)
(* thread scheduled fairly                                                 *)

\* the states map after AAPL, held, was bought at entered and sold at exited
SoldBefore(entered, exited) ==
    transition(transition(EmptyDict, "AAPL", "BUY", TRUE, entered),
               "AAPL", "SELL", TRUE, exited)

\* the loop has been running: AAPL went through ENTERED into COOLDOWN
\* cooldown_minutes before the iteration that starts now, with the order of
\* that SELL filled (the last trade time is recorded) or failed (it is not)
ReentryInit ==
    /\ FwIdle
    /\ sm_states = SoldBefore(PipeStart - cooldown_minutes - check_interval,
                              PipeStart - cooldown_minutes)
    /\ sm_clock = PipeStart
    /\ sm_call = None
    /\ \E last_trades \in {EmptyDict,
                           Put(EmptyDict, "AAPL",
                               PipeStart - cooldown_minutes)} :
          mg_risk_state = [day_pnl_pct |-> 0, consecutive_losses |-> 0,
                           last_trade_time_by_symbol |-> last_trades]
    /\ mg_cycle = None
    /\ mg_other = None
    /\ ai_response = None
    /\ br_positions \in InitialHoldings
    /\ br_orders = <<>>
    /\ db_monitored = [s \in DOMAIN br_positions |->
                          MonitoredRow(br_positions[s].avg_entry_price, 50,
                                       100)]
    /\ audit_log = <<>>
    /\ log_calls = 0
    /\ loop_pc = "sweep"
    /\ task_idx = 0
    /\ iterations = 0
    /\ at_running = TRUE
    /\ at_threads = <<>>
    /\ last_query = None

ReentryNext ==
    \/ Sweep
    \/ V2Decide
    \/ V2Execute
    \/ Sleep

\* the loop's thread keeps running: a step that is possible is taken
ReentrySpec == ReentryInit /\ [][ReentryNext]_vars /\ WF_vars(ReentryNext)

-----------------------------------------------------------------------------
(* Properties of re-entry after the cooldown, under ReentrySpec *)

\* the symbol is in COOLDOWN and its cooldown window has elapsed
CooldownElapsedFor(symbol) ==
    /\ get_state(sm_states, symbol) = "COOLDOWN"
    /\ CooldownOver(sm_states[symbol], sm_clock)

-----------------------------------------------------------------------------
(* Properties of the entry gates of the firewall, under FwSpec *)

\* the verdict allows a BUY
AllowsBuy(result) == result.allowed /\ result.final_action = "BUY"

\* the entry gates of check on a snapshot and a proposal; a spread or a
\* liquidity score the snapshot does not have is not tested
EntryGates(snapshot, proposal) ==
    /\ Len(snapshot.missing_fields) = 0
    /\ \/ snapshot.session = "regular"
       \/ enable_extended_hours /\ snapshot.session # "closed"
    /\ snapshot.spread # None => snapshot.spread[1] <= max_spread
    /\ snapshot.liquidity_score # None
         => snapshot.liquidity_score[1] >= min_liquidity_score
    /\ snapshot.buy_rule_count >= min_buy_rule_count
    /\ proposal.confidence >= min_confidence_buy
    /\ snapshot.day_pnl_pct > day_circuit_breaker_pct

-----------------------------------------------------------------------------
(* Properties of the signal conflict test of the firewall, under FwSpec *)

\* the reason codes of a verdict, as a set
ReasonCodes(result) ==
    {result.reason_codes[i] : i \in 1 .. Len(result.reason_codes)}

\* the snapshot's own contradiction: an uptrend that neither MACD nor volume
\* supports
SnapshotConflict(snapshot) ==
    snapshot.trend_ok /\ ~snapshot.macd_ok /\ ~snapshot.volume_ok

\* the verdict comes from the numbered checks, not from the price test or
\* the hard stop that return before them
ReachedBuySignals(snapshot) ==
    snapshot.has_valid_price /\ ~HardStopTriggered(snapshot)

\* C36: check records SIGNAL_CONFLICT for a BUY proposal exactly when the
\* snapshot's trend_ok is true and both its macd_ok and volume_ok are false,
\* and the verdict's allowed is the same whatever evidence map the proposal
\* reports.
C36_ConflictFromSnapshotOnly ==
    (fw_result # None /\ fw_proposal[1].proposed_action = "BUY"
                      /\ ReachedBuySignals(fw_snapshot[1]))
        => /\ ("SIGNAL_CONFLICT" \in ReasonCodes(fw_result[1]))
                  <=> SnapshotConflict(fw_snapshot[1])
           /\ \A evidence \in EvidenceSet :
                 check([fw_proposal[1] EXCEPT !.evidence = evidence],
                       fw_snapshot[1], fw_clock).allowed
                     = fw_result[1].allowed
-----------------------------------------------------------------------------
(* Properties of the hard stop in the cycle, under PipeSpec *)

\* the cycle built a snapshot with a valid price and a position at or below
\* the hard stop
CycleAtHardStop ==
    /\ mg_cycle # None
    /\ Cycle.snapshot # None
    /\ Cycle.snapshot[1].has_valid_price
    /\ HardStopTriggered(Cycle.snapshot[1])

\* the cycle handed a proposal to the firewall and goes on to the order with
\* an allowed SELL of the full position
SellsFullPosition ==
    /\ Cycle.checked # None
    /\ Cycle.gated # None
    /\ Cycle.gated[1].allowed
    /\ Cycle.final_action = "SELL"
    /\ Cycle.can_execute
    /\ Cycle.gated[1].final_params.position_size_pct = 100
    /\ Cycle.stage = "logged"

\* C37: whenever the snapshot of a cycle has a valid price and an open
\* position at or below the hard stop, the cycle passes a proposal to the
\* firewall and attempts a SELL of the full position, whatever the advisory
\* engine returned: a proposal, unparseable text, an error or a timeout.
C37_HardStopAlwaysSells ==
    CycleAtHardStop => SellsFullPosition
-----------------------------------------------------------------------------
(* start(), stop() and the threads of _monitor_loop *)

\* start() creates at most MaxThreads threads, and a thread is followed
\* for at most MaxLoops iterations
MaxThreads == 3

MaxLoops == 2

\* threading.Thread(target=self._monitor_loop): the thread stands at the test
\* of while self.running
NewThread == [pc |-> "test", loops |-> 0]

\* self.thread, the thread the last start() created
LastThread == Len(at_threads)

\* what start, stop and the threads leave alone
at_others == <<mg_risk_state, mg_cycle, mg_other, ai_response, br_positions, br_orders, db_monitored, audit_log, log_calls, loop_pc, task_idx, iterations, last_query>>

\* start(): returns when the flag is set, else sets it and starts a thread
Start ==
    /\ IF at_running
       THEN UNCHANGED <<at_running, at_threads>>
       ELSE /\ Len(at_threads) < MaxThreads
            /\ at_running' = TRUE
            /\ at_threads' = Append(at_threads, NewThread)
    /\ UNCHANGED at_others
    /\ UNCHANGED fw_vars
    /\ UNCHANGED sm_vars

\* stop(): clears the flag and joins self.thread for at most 5 seconds; the
\* join returns early when that thread, at the test or at the end of its
\* sleep, sees the flag and leaves the loop, and times out otherwise
Stop ==
    /\ at_running' = FALSE
    /\ \E joined \in BOOLEAN :
          at_threads' =
              IF joined /\ at_threads # <<>>
                        /\ at_threads[LastThread].pc \in {"test", "sleep"}
              THEN [at_threads EXCEPT ![LastThread].pc = "exited"]
              ELSE at_threads
    /\ UNCHANGED at_others
    /\ UNCHANGED fw_vars
    /\ UNCHANGED sm_vars

\* _monitor_loop of a thread: while self.running
TestRunning ==
    /\ \E i \in 1 .. Len(at_threads) :
          /\ at_threads[i].pc = "test"
          /\ at_running => at_threads[i].loops < MaxLoops
          /\ at_threads' =
                 [at_threads EXCEPT
                    ![i] = IF at_running
                           THEN [pc |-> "iterate", loops |-> @.loops + 1]
                           ELSE [@ EXCEPT !.pc = "exited"]]
    /\ UNCHANGED at_running
    /\ UNCHANGED at_others
    /\ UNCHANGED fw_vars
    /\ UNCHANGED sm_vars

\* _monitor_loop of a thread: the sweep and the tasks of one iteration, up
\* to time.sleep
Iterate ==
    /\ \E i \in 1 .. Len(at_threads) :
          /\ at_threads[i].pc = "iterate"
          /\ at_threads' = [at_threads EXCEPT ![i].pc = "sleep"]
    /\ UNCHANGED at_running
    /\ UNCHANGED at_others
    /\ UNCHANGED fw_vars
    /\ UNCHANGED sm_vars

\* _monitor_loop of a thread: time.sleep returns
Wake ==
    /\ \E i \in 1 .. Len(at_threads) :
          /\ at_threads[i].pc = "sleep"
          /\ at_threads' = [at_threads EXCEPT ![i].pc = "test"]
    /\ UNCHANGED at_running
    /\ UNCHANGED at_others
    /\ UNCHANGED fw_vars
    /\ UNCHANGED sm_vars

\* AlpacaAutoTrader.__init__: running = False, thread = None
ThreadInit ==
    /\ FwIdle
    /\ SmIdle
    /\ PlIdle

ThreadNext ==
    \/ Start
    \/ Stop
    \/ TestRunning
    \/ Iterate
    \/ Wake

ThreadSpec == ThreadInit /\ [][ThreadNext]_vars

-----------------------------------------------------------------------------
(* Properties of start() and stop(), under ThreadSpec *)

\* the threads that are executing an iteration
Iterating == {i \in 1 .. Len(at_threads) : at_threads[i].pc = "iterate"}

\* C38: over any sequence of start() and stop() calls at most one
\* _monitor_loop thread is executing an iteration at any time, also when
\* start() is called after a stop() whose join timed out while the old loop
\* was still sleeping.
C38_OneLoopThread == Cardinality(Iterating) <= 1
-----------------------------------------------------------------------------
(* The breakout rule of IndicatorSnapshot.from_market_data *)

\* prices in cents: one cent, the two sides of 1.0098 * 100.00 and of
\* 1.0098 * 173.00, the prices of llm_role_example.py
BreakoutPrices == {1, 10000, 10097, 10098, 17469, 17470, 17550, 17600}

\* highs in cents: no high at all (0), one cent, highs at and around the
\* prices, the two sides of 175.50 / 1.0098
BreakoutHighs == {0, 1, 10000, 17300, 17379, 17380, 17550, 17600, 20000}

\* market data with this price, this high and a low that is not above the
\* price
WithPrices(md, price, high) ==
    [k \in DOMAIN md |->
        IF k = "current_price" THEN price
        ELSE IF k = "high" THEN high
        ELSE IF k = "low" THEN Min(md[k], price)
        ELSE md[k]]

\* market data that carries no high: from_market_data takes the price
WithoutHigh(md, price) ==
    [k \in (DOMAIN md) \ {"high"} |-> WithPrices(md, price, price)[k]]

BreakoutMarketData ==
    {WithPrices(md, price, high) :
        md \in {MdStrong, MdWeak, MdConflict, MdMissing},
        price \in BreakoutPrices, high \in BreakoutHighs}
    \cup {WithoutHigh(md, price) :
            md \in {MdStrong, MdWeak}, price \in BreakoutPrices}

BreakoutInit ==
    /\ FwIdle
    /\ SmIdle
    /\ PlIdle

\* run_strategy_cycle_v2 builds the snapshot from what get_market_data
\* returned
SnapshotOfPrices ==
    /\ fw_pc = "idle"
    /\ \E md \in BreakoutMarketData, now \in {930, 960} :
          /\ fw_snapshot' = Some(from_market_data("AAPL", md, <<>>,
                                                  EmptyDict, now))
          /\ fw_clock' = now
    /\ fw_pc' = "snapshot"
    /\ UNCHANGED <<enable_extended_hours, fw_proposal, fw_result, fw_result2>>
    /\ UNCHANGED sm_vars
    /\ UNCHANGED pl_vars

BreakoutNext == SnapshotOfPrices

BreakoutSpec == BreakoutInit /\ [][BreakoutNext]_vars

\* 0 < current_price <= high
PriceWithinHigh(snapshot) ==
    0 < snapshot.price /\ snapshot.price <= snapshot.high

\* C39: a snapshot that from_market_data built from a price above 0 and
\* not above the high has breakout_ok false, and with that at most 5 of the
\* 6 buy rules.
C39_NoBreakoutWithinHigh ==
    (fw_snapshot # None /\ PriceWithinHigh(fw_snapshot[1]))
        => /\ ~fw_snapshot[1].breakout_ok
           /\ fw_snapshot[1].buy_rule_count <= 5

\* the price equals the high and the five other rules hold
C39_Witness ==
    /\ fw_snapshot # None
    /\ fw_snapshot[1].price = fw_snapshot[1].high
    /\ fw_snapshot[1].buy_rule_count = 5
    /\ ~fw_snapshot[1].breakout_ok
-----------------------------------------------------------------------------
(* The confidence of an allowed BUY, under FwSpec *)

\* the verdict's confidence is not below min_confidence_buy
ConfidenceSuffices(result) ==
    result.normalized_confidence >= min_confidence_buy

\* C40: every verdict of check that allows a BUY has a normalized
\* confidence of at least min_confidence_buy.
C40_AllowedBuyIsConfident ==
    /\ (fw_result # None /\ AllowsBuy(fw_result[1]))
          => ConfidenceSuffices(fw_result[1])
    /\ (fw_result2 # None /\ AllowsBuy(fw_result2[1]))
          => ConfidenceSuffices(fw_result2[1])

====
